---- MODULE Spec2Model ----
(***************************************************************************)
(* Remote coding agent: the concurrency-and-session core.                  *)
(*                                                                         *)
(*  - ConversationLockManager (src/utils/conversation-lock.ts): per-key    *)
(*    promise chain plus a global counting semaphore.                      *)
(*  - handleMessage (src/orchestrator/orchestrator.ts): the session state  *)
(*    machine of one conversation.                                         *)
(*                                                                         *)
(* SpecLock drives the lock manager with abstract units of work.           *)
(* SpecOrch drives handleMessage, one await at a time.                     *)
(* SpecParse and SpecSlack call the text utilities on bounded inputs.      *)
(* SpecReset and SpecPlan start from conversations that hold a session.    *)
(* SpecStuck joins the two with a backend stream that never yields.        *)
(* SpecInvoke and SpecRegister drive /command-invoke and registration.     *)
(***************************************************************************)
EXTENDS Integers, Sequences, FiniteSets, TLC

VARIABLES
    maxConcurrent,  \* constructor argument of ConversationLockManager
    units,          \* every acquireLock call so far, in call order
    tail,           \* key -> id of the tail link of the key's chain, 0 = no map entry
    permits,        \* free permits of the global semaphore
    waiters,        \* FIFO queue of units suspended in the semaphore's acquire
    activeCount,    \* live counter: units running
    queuedCount,    \* live counter: units admitted and not yet running
    started,        \* history: key -> unit ids in the order their work began
    settled,        \* history: key -> unit ids in the order their work settled
    streamingMode,  \* conversation -> 'stream' | 'batch' of its platform adapter
    conversations,  \* conversation records (remote_agent_conversations)
    codebases,      \* codebase records (remote_agent_codebases)
    sessions,       \* session records (remote_agent_sessions)
    execs,          \* handleMessage invocations: locals and position
    sent,           \* conversation -> messages passed to platform.sendMessage
    input,          \* argument of the latest call of a text utility
    output          \* what that call returned or posted

\* The text utilities keep no state of their own; neither the lock manager
\* nor handleMessage's steps touch their call record.
textVars == <<input, output>>

lockState == <<maxConcurrent, units, tail, permits, waiters, activeCount,
               queuedCount, started, settled>>

orchState == <<streamingMode, conversations, codebases, sessions, execs, sent>>

lockVars == <<lockState, textVars>>

orchVars == <<orchState, textVars>>

vars == <<lockVars, orchVars>>

(***************************************************************************)
(* Bounds                                                                  *)
(***************************************************************************)
MaxUnits == 3
MaxCeiling == 2
MaxMsgs == 2
MaxCodebases == 2

Keys == {"k1", "k2", "k3"}
NoUnit == 0

\* How a unit of work settles. Every call site passes an async function, so a
\* throw inside the work is a rejection of its promise.
WorkOutcomes == {"resolved", "rejected"}

Convs == {"c1", "gh1"}
NoSession == 0
NoCodebase == 0
NoToken == 0

\* The state of the orchestrator's collaborators while only the lock manager
\* is exercised.
OrchIdle ==
    /\ input = [call |-> "none"]
    /\ output = <<>>
    /\ streamingMode = [c \in Convs |-> "stream"]
    /\ conversations = [c \in Convs |->
                           [exists |-> FALSE, codebase_id |-> NoCodebase, cwd |-> ""]]
    /\ codebases = <<>>
    /\ sessions = <<>>
    /\ execs = <<>>
    /\ sent = [c \in Convs |-> <<>>]

(***************************************************************************)
(* ConversationLockManager                                                 *)
(***************************************************************************)
UnitIds == 1..Len(units)

Running == {u \in UnitIds : units[u].st = "running"}

\* Mutant: the new link does not chain off the key's current tail.
UnitUnchained(k, p) ==
    [key |-> k, pred |-> NoUnit, st |-> "chained", work |-> "pending",
     future |-> "pending", delayed |-> FALSE]

Unit(k, p) ==
    [key |-> k, pred |-> p, st |-> "chained", work |-> "pending",
     future |-> "pending", delayed |-> FALSE]

\* main(): MAX_CONCURRENT_CONVERSATIONS, default '10'
MaxConcurrentValues == 1..MaxCeiling

LockInit ==
    /\ maxConcurrent \in MaxConcurrentValues
    /\ units = <<>>
    /\ tail = [k \in Keys |-> NoUnit]
    /\ permits = maxConcurrent
    /\ waiters = <<>>
    /\ activeCount = 0
    /\ queuedCount = 0
    /\ started = [k \in Keys |-> <<>>]
    /\ settled = [k \in Keys |-> <<>>]

\* Mutant: the chain link swallows the work's failure.
PropagateSwallowed(o) == "resolved"

\* The settlement of the returned future: the cleanup runs in finally(), which
\* passes the work's own outcome through.
Propagate(o) == o

\* Mutant: the queued counter is not incremented on admission.
acquireLockUncounted(k) ==
    /\ UNCHANGED orchVars
    /\ Len(units) < MaxUnits
    /\ k \in Keys
    /\ units' = Append(units, Unit(k, tail[k]))
    /\ tail' = [tail EXCEPT ![k] = Len(units) + 1]
    /\ UNCHANGED <<maxConcurrent, permits, waiters, activeCount, queuedCount,
                   started, settled>>

\* acquireLock(key, work) with a non-empty key: the new link chains off the
\* key's current tail and becomes the tail.
acquireLock(k) ==
    /\ UNCHANGED orchVars
    /\ Len(units) < MaxUnits
    /\ k \in Keys
    /\ units' = Append(units, Unit(k, tail[k]))
    /\ tail' = [tail EXCEPT ![k] = Len(units) + 1]
    /\ queuedCount' = queuedCount + 1
    /\ UNCHANGED <<maxConcurrent, permits, waiters, activeCount, started, settled>>

\* Mutant: a link runs only after its predecessor resolved (then() without
\* a rejection handler).
TurnArrivedOnSuccess(u) ==
    IF units[u].pred = NoUnit THEN TRUE
    ELSE /\ units[units[u].pred].st = "settled"
         /\ units[units[u].pred].future = "resolved"

\* Mutant: a link does not wait for its predecessor.
TurnArrivedAtOnce(u) == TRUE

\* The link's turn: its predecessor has settled.
TurnArrived(u) ==
    IF units[u].pred = NoUnit THEN TRUE
    ELSE units[units[u].pred].st = "settled"

\* Mutant: the link runs without acquiring a permit.
AdvanceUnthrottled(u) ==
    /\ UNCHANGED orchVars
    /\ u \in UnitIds
    /\ units[u].st = "chained"
    /\ TurnArrived(u)
    /\ units' = [units EXCEPT ![u].st = "running"]
    /\ activeCount' = activeCount + 1
    /\ queuedCount' = queuedCount - 1
    /\ started' = [started EXCEPT ![units[u].key] = Append(@, u)]
    /\ UNCHANGED <<maxConcurrent, tail, settled, permits, waiters>>

\* The link's turn arrives: it acquires a permit of the global semaphore, or
\* suspends in the semaphore's queue when none is free.
Advance(u) ==
    /\ UNCHANGED orchVars
    /\ u \in UnitIds
    /\ units[u].st = "chained"
    /\ TurnArrived(u)
    /\ IF permits > 0
       THEN /\ permits' = permits - 1
            /\ units' = [units EXCEPT ![u].st = "running"]
            /\ activeCount' = activeCount + 1
            /\ queuedCount' = queuedCount - 1
            /\ started' = [started EXCEPT ![units[u].key] = Append(@, u)]
            /\ UNCHANGED waiters
       ELSE /\ waiters' = Append(waiters, u)
            /\ units' = [units EXCEPT ![u].st = "waiting", ![u].delayed = TRUE]
            /\ UNCHANGED <<permits, activeCount, queuedCount, started>>
    /\ UNCHANGED <<maxConcurrent, tail, settled>>

\* Mutant: release() returns the permit without waking a suspended waiter.
SettleNoWake(u, o) ==
    /\ UNCHANGED orchVars
    /\ u \in UnitIds
    /\ units[u].st = "running"
    /\ o \in WorkOutcomes
    /\ settled' = [settled EXCEPT ![units[u].key] = Append(@, u)]
    /\ tail' = [tail EXCEPT ![units[u].key] =
                   IF tail[units[u].key] = u THEN NoUnit ELSE @]
    /\ units' = [units EXCEPT ![u].st = "settled",
                              ![u].work = o,
                              ![u].future = Propagate(o)]
    /\ permits' = permits + 1
    /\ activeCount' = activeCount - 1
    /\ UNCHANGED <<maxConcurrent, waiters, queuedCount, started>>

\* Mutant: the permit is released after the work only when it resolved
\* (release not in a finally block).
SettleLeakOnFailure(u, o) ==
    /\ UNCHANGED orchVars
    /\ u \in UnitIds
    /\ units[u].st = "running"
    /\ o \in WorkOutcomes
    /\ settled' = [settled EXCEPT ![units[u].key] = Append(@, u)]
    /\ tail' = [tail EXCEPT ![units[u].key] =
                   IF tail[units[u].key] = u THEN NoUnit ELSE @]
    /\ IF o = "resolved" /\ waiters # <<>>
       THEN /\ units' = [units EXCEPT ![u].st = "settled",
                                      ![u].work = o,
                                      ![u].future = Propagate(o),
                                      ![Head(waiters)].st = "running"]
            /\ waiters' = Tail(waiters)
            /\ started' = [started EXCEPT ![units[Head(waiters)].key] = Append(@, Head(waiters))]
            /\ queuedCount' = queuedCount - 1
            /\ UNCHANGED <<permits, activeCount>>
       ELSE /\ units' = [units EXCEPT ![u].st = "settled",
                                      ![u].work = o,
                                      ![u].future = Propagate(o)]
            /\ permits' = IF o = "resolved" THEN permits + 1 ELSE permits
            /\ activeCount' = IF o = "resolved" THEN activeCount - 1
                               ELSE activeCount
            /\ UNCHANGED <<waiters, queuedCount, started>>
    /\ UNCHANGED <<maxConcurrent>>

\* Mutant: the cleanup removes the key's map entry without checking that this
\* link is still the tail.
SettleTearsDownAlways(u, o) ==
    /\ UNCHANGED orchVars
    /\ u \in UnitIds
    /\ units[u].st = "running"
    /\ o \in WorkOutcomes
    /\ settled' = [settled EXCEPT ![units[u].key] = Append(@, u)]
    /\ tail' = [tail EXCEPT ![units[u].key] = NoUnit]
    /\ IF waiters # <<>>
       THEN /\ units' = [units EXCEPT ![u].st = "settled",
                                      ![u].work = o,
                                      ![u].future = Propagate(o),
                                      ![Head(waiters)].st = "running"]
            /\ waiters' = Tail(waiters)
            /\ started' = [started EXCEPT ![units[Head(waiters)].key] = Append(@, Head(waiters))]
            /\ queuedCount' = queuedCount - 1
            /\ UNCHANGED <<permits, activeCount>>
       ELSE /\ units' = [units EXCEPT ![u].st = "settled",
                                      ![u].work = o,
                                      ![u].future = Propagate(o)]
            /\ permits' = permits + 1
            /\ activeCount' = activeCount - 1
            /\ UNCHANGED <<waiters, queuedCount, started>>
    /\ UNCHANGED <<maxConcurrent>>

\* The unit's work settles with outcome o (every exit path): the permit is
\* released (handed to the first waiter, if any), the returned future settles,
\* and the map entry is removed when this link is still the key's tail.
Settle(u, o) ==
    /\ UNCHANGED orchVars
    /\ u \in UnitIds
    /\ units[u].st = "running"
    /\ o \in WorkOutcomes
    /\ settled' = [settled EXCEPT ![units[u].key] = Append(@, u)]
    /\ tail' = [tail EXCEPT ![units[u].key] =
                   IF tail[units[u].key] = u THEN NoUnit ELSE @]
    /\ IF waiters # <<>>
       THEN /\ units' = [units EXCEPT ![u].st = "settled",
                                      ![u].work = o,
                                      ![u].future = Propagate(o),
                                      ![Head(waiters)].st = "running"]
            /\ waiters' = Tail(waiters)
            /\ started' = [started EXCEPT ![units[Head(waiters)].key] = Append(@, Head(waiters))]
            /\ queuedCount' = queuedCount - 1
            /\ UNCHANGED <<permits, activeCount>>
       ELSE /\ units' = [units EXCEPT ![u].st = "settled",
                                      ![u].work = o,
                                      ![u].future = Propagate(o)]
            /\ permits' = permits + 1
            /\ activeCount' = activeCount - 1
            /\ UNCHANGED <<waiters, queuedCount, started>>
    /\ UNCHANGED <<maxConcurrent>>

\* getStats(): a snapshot of the live counters.
getStats ==
    [active |-> activeCount,
     queued |-> queuedCount,
     keys   |-> Cardinality({k \in Keys : tail[k] # NoUnit})]

NextLock ==
    \/ \E k \in Keys : acquireLock(k)
    \/ \E u \in 1..MaxUnits : Advance(u)
    \/ \E u \in 1..MaxUnits, o \in WorkOutcomes : Settle(u, o)

InitLock == LockInit /\ OrchIdle

SpecLock == InitLock /\ [][NextLock]_vars

\* Every unit of work eventually settles, and the event loop runs every
\* ready continuation.
FairLock ==
    /\ SpecLock
    /\ \A u \in 1..MaxUnits : WF_vars(Advance(u))
    /\ \A u \in 1..MaxUnits : WF_vars(\E o \in WorkOutcomes : Settle(u, o))

(***************************************************************************)
(* Properties of the lock manager                                          *)
(***************************************************************************)
SameKey(u, v) == units[u].key = units[v].key

HasRun(u) == units[u].st \in {"running", "settled"}

\* Position of x in sequence s, 0 when absent.
Pos(s, x) == IF \E i \in 1..Len(s) : s[i] = x
             THEN CHOOSE i \in 1..Len(s) : s[i] = x
             ELSE 0

\* C1: no two units of work submitted under the same key execute at the same
\* time; the later one starts only after the earlier one has settled.
MutualExclusionPerKey ==
    \A u \in UnitIds, v \in UnitIds :
        (u < v /\ SameKey(u, v) /\ HasRun(v)) => units[u].st = "settled"

\* C1 witness: two units of one key; the first has settled, the second runs,
\* while a unit of another key runs beside it.
MutualExclusionWitness ==
    \E u \in UnitIds, v \in UnitIds, w \in UnitIds :
        /\ u < v /\ SameKey(u, v)
        /\ units[u].st = "settled" /\ units[v].st = "running"
        /\ units[w].key # units[v].key /\ units[w].st = "running"

\* C2: the number of units executing across all keys never exceeds
\* maxConcurrent.
GlobalCeiling == Cardinality(Running) <= maxConcurrent

\* C2 witness: the ceiling of 2 is saturated and a unit of a third key is
\* suspended in the semaphore.
GlobalCeilingWitness ==
    /\ maxConcurrent = 2
    /\ Cardinality(Running) = maxConcurrent
    /\ waiters # <<>>

\* C3: units of one key start and complete in submission order.
FifoPerKey ==
    \A u \in UnitIds, v \in UnitIds :
        (u < v /\ SameKey(u, v)) =>
            /\ Pos(started[units[v].key], v) # 0 =>
                  /\ Pos(started[units[u].key], u) # 0
                  /\ Pos(started[units[u].key], u) < Pos(started[units[v].key], v)
            /\ Pos(settled[units[v].key], v) # 0 =>
                  /\ Pos(settled[units[u].key], u) # 0
                  /\ Pos(settled[units[u].key], u) < Pos(settled[units[v].key], v)

\* C3 witness: two units of one key have both completed, the first after
\* having been suspended in the semaphore, as has a unit of another key that
\* was submitted between them.
FifoWitness ==
    \E u \in UnitIds, v \in UnitIds, w \in UnitIds :
        /\ u < w /\ w < v /\ SameKey(u, v) /\ units[w].key # units[u].key
        /\ units[u].delayed
        /\ units[w].st = "settled"
        /\ settled[units[u].key] = <<u, v>>

\* C4: provided every unit of work eventually settles, every unit submitted
\* through acquireLock eventually executes.
NoStarvation ==
    \A u \in 1..MaxUnits :
        (u \in UnitIds /\ units[u].st \in {"chained", "waiting"})
            ~> (u \in UnitIds /\ HasRun(u))

\* C4 witness: with maxConcurrent = 1, a unit of a new key that was submitted
\* while the ceiling was saturated, and a unit queued behind a predecessor of
\* its own key, have both executed.
NoStarvationWitness ==
    /\ maxConcurrent = 1
    /\ \E u \in UnitIds, v \in UnitIds :
        /\ units[u].pred = NoUnit /\ units[u].delayed /\ units[u].st = "settled"
        /\ units[v].pred # NoUnit /\ units[v].st = "settled"

Failed(u) == units[u].st = "settled" /\ units[u].work = "rejected"

\* C5: a unit of work that rejects or throws holds no permit afterwards and
\* blocks neither its successor on the same key nor the units of other keys.
FailureNeverBlocks ==
    (\E u \in UnitIds : Failed(u)) =>
        /\ permits + Cardinality(Running) = maxConcurrent
        /\ waiters # <<>> => permits = 0
        /\ \A v \in UnitIds :
              (units[v].st = "chained" /\ units[v].pred # NoUnit
                 /\ Failed(units[v].pred)) => ENABLED Advance(v)

\* C5 witness: a unit failed; its successor on the same key and a unit of
\* another key submitted after it have both run since.
FailureNeverBlocksWitness ==
    \E u \in UnitIds, v \in UnitIds, w \in UnitIds :
        /\ Failed(u)
        /\ units[v].pred = u /\ HasRun(v)
        /\ w > u /\ units[w].key # units[u].key /\ units[w].delayed
        /\ HasRun(w)

\* C6: the future returned by acquireLock settles exactly as the work does:
\* pending while the work has not settled, resolved when it resolved, rejected
\* when it rejected, and never with an error of the controller's own.
FutureSettlesAsWork ==
    \A u \in UnitIds :
        /\ units[u].future \in {"pending", "resolved", "rejected"}
        /\ units[u].st # "settled" => units[u].future = "pending"
        /\ units[u].st = "settled" =>
              /\ units[u].work \in WorkOutcomes
              /\ units[u].future = units[u].work

\* C6 witness: one unit resolved, one rejected after waiting for a permit, and
\* a third is still pending.
FutureSettlesWitness ==
    \E u \in UnitIds, v \in UnitIds, w \in UnitIds :
        /\ units[u].work = "resolved" /\ units[u].future = "resolved"
        /\ units[v].work = "rejected" /\ units[v].future = "rejected"
        /\ units[v].delayed
        /\ units[w].st = "running" /\ units[w].future = "pending"

AllSettled ==
    \A u \in UnitIds : units[u].st = "settled"

\* C7: getStats never reports a negative count and reports zero active and
\* zero queued once every submitted unit has settled.
StatsSound ==
    /\ getStats.active >= 0
    /\ getStats.queued >= 0
    /\ getStats.keys >= 0
    /\ AllSettled => (getStats.active = 0 /\ getStats.queued = 0)

\* C7 witness: every submitted unit has settled, one of them by failing after
\* having been queued behind the ceiling.
StatsWitness ==
    /\ AllSettled
    /\ Len(units) = MaxUnits
    /\ \E u \in UnitIds : Failed(u) /\ units[u].delayed

(***************************************************************************)
(* Orchestrator: messages                                                  *)
(***************************************************************************)
KNOWN_COMMANDS ==
    {"clone", "help", "status", "reset", "getcwd", "setcwd", "commands",
     "command-set", "command-invoke", "load-commands", "codebase-switch", "repos"}

\* A message text: optional leading whitespace, optional '/' marker, the first
\* word (without the marker) and the remaining tokens.
Msg(sl, w, a) == [lead |-> FALSE, slash |-> sl, word |-> w, args |-> a]

InboundMessages ==
    {Msg(FALSE, "hello", <<>>),
     Msg(TRUE, "command-invoke", <<"plan-feature">>),
     Msg(TRUE, "command-invoke", <<"execute">>),
     Msg(TRUE, "command-invoke", <<>>),
     Msg(TRUE, "command-invokes", <<"plan-feature">>),
     Msg(TRUE, "reset", <<>>),
     Msg(FALSE, "reset", <<>>),
     Msg(TRUE, "setcwd", <<"/workspace/r1">>),
     Msg(TRUE, "clone", <<"acme/widget">>),
     Msg(TRUE, "help", <<>>)}

\* firstWord.toLowerCase(), on the first words of the inbound messages.
toLowerCase(w) == IF w = "Reset" THEN "reset" ELSE w

\* Variant: the message is taken as typed.
normalizeCommandAsTyped(m) == m

\* Only the comparison is lowercased; the returned text keeps its case.
normalizeCommand(m) ==
    IF toLowerCase(m.word) \in KNOWN_COMMANDS /\ ~m.slash
    THEN [m EXCEPT !.lead = FALSE, !.slash = TRUE]
    ELSE m

\* message.startsWith('/')
StartsWithSlash(m) == ~m.lead /\ m.slash

\* The first words of the inbound messages that have 'command-invoke' as a
\* prefix.
InvokePrefixed == {"command-invoke", "command-invokes"}

\* Variant: every message with the marker falls through to the invoke path.
StartsWithInvokeAnySlash(m) == StartsWithSlash(m)

\* message.startsWith('/command-invoke'): a prefix test on the text, not a
\* comparison of the first word.
StartsWithInvoke(m) == StartsWithSlash(m) /\ m.word \in InvokePrefixed

\* parseCommand on a message that starts with the marker: the first token
\* without its first character, and the remaining tokens.
parseCommand(m) == [command |-> m.word, args |-> m.args]

(***************************************************************************)
(* Orchestrator: storage collaborators                                     *)
(***************************************************************************)
SessionIds == 1..Len(sessions)

ActiveSessions(c) ==
    {i \in SessionIds : sessions[i].conversation_id = c /\ sessions[i].active}

\* getActiveSession(conversation.id): the active session row, or null.
getActiveSession(c) ==
    IF ActiveSessions(c) = {} THEN {NoSession} ELSE ActiveSessions(c)

deactivateSession(ss, id) == [ss EXCEPT ![id].active = FALSE]

\* invoked is history, not a column: the command of the latest invoke whose
\* backend query ran on the session.
createSession(ss, c, cb) ==
    Append(ss, [conversation_id |-> c, codebase_id |-> cb, active |-> TRUE,
                assistant_session_id |-> NoToken, lastCommand |-> "",
                invoked |-> ""])

updateSession(ss, id, tok) == [ss EXCEPT ![id].assistant_session_id = tok]

updateSessionMetadata(ss, id, cmd) == [ss EXCEPT ![id].lastCommand = cmd]

\* findCodebaseByPath(path): the codebase whose default_cwd is path, or null.
findCodebaseByPath(path) ==
    IF \E i \in 1..Len(codebases) : codebases[i].default_cwd = path
    THEN CHOOSE i \in 1..Len(codebases) : codebases[i].default_cwd = path
    ELSE NoCodebase

\* /clone <owner/repo>: the target path under /workspace.
TargetPath(repo) == IF repo = "acme/widget" THEN "/workspace/widget" ELSE "/workspace/unknown"

(***************************************************************************)
(* Orchestrator: the AI backend's chunk streams                            *)
(***************************************************************************)
Chunk(t, c, sid, tool) ==
    [type |-> t, content |-> c, sessionId |-> sid, toolName |-> tool]

\* The streams a query of invocation e may produce; a backend session token is
\* fresh for each query. "throw" stands for the generator failing.
Streams(e) ==
    {<<Chunk("assistant", <<"glyph", "plain">>, NoToken, ""),
       Chunk("tool", <<>>, NoToken, "Read"),
       Chunk("result", <<>>, e, "")>>,
     <<Chunk("result", <<>>, e, ""), Chunk("throw", <<>>, NoToken, "")>>,
     <<>>}

\* Chunk sequences that exercise delivery: several assistant texts around a
\* tool call, non-text chunks only, no chunk at all, two result chunks with
\* different tokens, a generator failing after a result chunk, and chunks
\* without content, tool name or token.
DeliveryStreams(e) ==
    {<<Chunk("assistant", <<"a1">>, NoToken, ""),
       Chunk("tool", <<>>, NoToken, "Read"),
       Chunk("assistant", <<"a2">>, NoToken, ""),
       Chunk("assistant", <<"glyph", "a3">>, NoToken, ""),
       Chunk("result", <<>>, e, "")>>,
     <<Chunk("tool", <<>>, NoToken, "Read"),
       Chunk("result", <<>>, e, ""),
       Chunk("system", <<"s">>, NoToken, ""),
       Chunk("thinking", <<"t">>, NoToken, "")>>,
     <<>>,
     <<Chunk("result", <<>>, e, ""),
       Chunk("assistant", <<"glyph", "glyph">>, NoToken, ""),
       Chunk("result", <<>>, e + 10, "")>>,
     <<Chunk("result", <<>>, e, ""), Chunk("throw", <<>>, NoToken, "")>>,
     <<Chunk("assistant", <<>>, NoToken, ""),
       Chunk("tool", <<>>, NoToken, ""),
       Chunk("result", <<>>, NoToken, "")>>}

\* A summary that keeps the tool-indicator sections.
CleanSummaryUnfiltered(content) == content

\* Batch mode: the last assistant message without its sections that start with
\* a tool indicator; the whole message when nothing is left.
CleanSummary(content) ==
    LET clean == SelectSeq(content, LAMBDA sec : sec # "glyph")
    IN IF clean = <<>> THEN content ELSE clean

(***************************************************************************)
(* Orchestrator: handleMessage                                             *)
(***************************************************************************)
PlatformOf(c) == IF c = "gh1" THEN "github" ELSE "test"

ExecIds == 1..Len(execs)

InFlight(c) == {e \in ExecIds : execs[e].conv = c /\ execs[e].pc # "done"}

\* raw is the text as the adapter received it (the handler's closure keeps
\* it); message is handleMessage's parameter, reassigned on normalization;
\* commands is the command handler's local copy of the codebase's commands.
NewExec(c, m) ==
    [conv |-> c, raw |-> m, message |-> m, pc |-> "start", codebase_id |-> NoCodebase,
     commands |-> {},
     commandName |-> "", startActive |-> {}, found |-> NoSession,
     lastCommand |-> "", session |-> NoSession,
     assistant_session_id |-> NoToken, created |-> 0, queried |-> FALSE,
     queryToken |-> NoToken, resumedInvoked |-> "", stream |-> <<>>,
     rest |-> <<>>,
     lastAssistant |-> <<>>,
     reply |-> "", result |-> "pending"]

OrchInit ==
    /\ streamingMode \in [Convs -> {"stream", "batch"}]
    /\ conversations \in [Convs ->
          {[exists |-> FALSE, codebase_id |-> NoCodebase, cwd |-> ""],
           [exists |-> TRUE, codebase_id |-> 1, cwd |-> "/workspace/r1"]}]
    /\ codebases = <<[default_cwd |-> "/workspace/r1",
                      commands |-> {"plan-feature", "execute"}]>>
    /\ sessions = <<>>
    /\ execs = <<>>
    /\ sent = [c \in Convs |-> <<>>]

\* The lock manager while only the orchestrator is exercised.
LockIdle ==
    /\ input = [call |-> "none"]
    /\ output = <<>>
    /\ maxConcurrent = 1
    /\ units = <<>>
    /\ tail = [k \in Keys |-> NoUnit]
    /\ permits = 1
    /\ waiters = <<>>
    /\ activeCount = 0
    /\ queuedCount = 0
    /\ started = [k \in Keys |-> <<>>]
    /\ settled = [k \in Keys |-> <<>>]

\* platform.sendMessage(conversationId, text) returning normally.
Send(c, e, text) == [sent EXCEPT ![c] = Append(@, [e |-> e, text |-> text])]

\* POST /test/message (likewise the Slack and Telegram handlers): the message
\* is handled inside lockManager.acquireLock(conversationId, ...), so it starts
\* only when no earlier message of the conversation is still being handled.
testMessage(c, m) ==
    /\ UNCHANGED lockVars
    /\ Len(execs) < MaxMsgs
    /\ PlatformOf(c) # "github"
    /\ InFlight(c) = {}
    /\ execs' = Append(execs, [NewExec(c, m) EXCEPT !.startActive = ActiveSessions(c)])
    /\ UNCHANGED <<streamingMode, conversations, codebases, sessions, sent>>

\* POST /webhooks/github: github.handleWebhook(payload, signature) is called
\* outside the lock manager and reaches handleMessage.
handleWebhook(c, m) ==
    /\ UNCHANGED lockVars
    /\ Len(execs) < MaxMsgs
    /\ PlatformOf(c) = "github"
    /\ execs' = Append(execs, [NewExec(c, m) EXCEPT !.startActive = ActiveSessions(c)])
    /\ UNCHANGED <<streamingMode, conversations, codebases, sessions, sent>>

ReplyWith(x, text) == [x EXCEPT !.pc = "reply", !.reply = text]

\* handleMessage has returned (or rejected): its locals are gone.
Finished(x, result) ==
    [NewExec(x.conv, x.message) EXCEPT !.pc = "done", !.result = result]

\* Variant: a freeform prompt is not checked for a linked codebase.
ClassifiedPromptUnchecked(x0, cb) ==
    LET m == normalizeCommand(x0.message)
        parsedArgs == parseCommand(m).args
        x == [x0 EXCEPT !.message = m, !.codebase_id = cb]
    IN IF StartsWithSlash(m) /\ ~StartsWithInvoke(m)
       THEN [x EXCEPT !.pc = "command"]
       ELSE IF StartsWithInvoke(m)
       THEN IF Len(parsedArgs) < 1
            THEN ReplyWith(x, "Usage: /command-invoke <name> [args...]")
            ELSE IF cb = NoCodebase
            THEN ReplyWith([x EXCEPT !.commandName = parsedArgs[1]],
                           "No codebase configured. Use /clone first.")
            ELSE [x EXCEPT !.commandName = parsedArgs[1], !.pc = "lookup"]
       ELSE [x EXCEPT !.pc = "getSession"]

\* Lines 56-143: the record of a run after classification of its message on a
\* conversation whose linked codebase is cb.
Classified(x0, cb) ==
    LET m == normalizeCommand(x0.message)
        parsedArgs == parseCommand(m).args
        x == [x0 EXCEPT !.message = m, !.codebase_id = cb]
    IN IF StartsWithSlash(m) /\ ~StartsWithInvoke(m)
       THEN [x EXCEPT !.pc = "command"]
       ELSE IF StartsWithInvoke(m)
       THEN IF Len(parsedArgs) < 1
            THEN ReplyWith(x, "Usage: /command-invoke <name> [args...]")
            ELSE IF cb = NoCodebase
            THEN ReplyWith([x EXCEPT !.commandName = parsedArgs[1]],
                           "No codebase configured. Use /clone first.")
            ELSE [x EXCEPT !.commandName = parsedArgs[1], !.pc = "lookup"]
       ELSE IF cb = NoCodebase
            THEN ReplyWith(x, "No codebase configured. Use /clone first.")
            ELSE [x EXCEPT !.pc = "getSession"]

\* handleMessage, lines 52-143 up to the first collaborator call of each path:
\* normalize, get or create the conversation, classify.
Classify(e) ==
    /\ UNCHANGED lockVars
    /\ e \in ExecIds
    /\ execs[e].pc = "start"
    /\ conversations' = [conversations EXCEPT ![execs[e].conv].exists = TRUE]
    /\ execs' = [execs EXCEPT ![e] =
          Classified(@, conversations[execs[e].conv].codebase_id)]
    /\ UNCHANGED <<streamingMode, codebases, sessions, sent>>

\* handleCommand: the switch on the command word, up to the session reset.
Command(e, ok) ==
    /\ UNCHANGED lockVars
    /\ e \in ExecIds
    /\ execs[e].pc = "command"
    /\ LET c == execs[e].conv
           command == parseCommand(execs[e].message).command
           args == parseCommand(execs[e].message).args
       IN CASE command = "reset" ->
                 /\ ok
                 /\ execs' = [execs EXCEPT ![e].pc = "cmdGetSession"]
                 /\ UNCHANGED <<conversations, codebases>>
            [] command = "setcwd" ->
                 /\ ok
                 /\ IF Len(args) = 0
                    THEN /\ execs' = [execs EXCEPT ![e] =
                                         ReplyWith(@, "Usage: /setcwd <path>")]
                         /\ UNCHANGED conversations
                    ELSE /\ conversations' = [conversations EXCEPT
                               ![c].cwd = args[1],
                               ![c].codebase_id =
                                   IF findCodebaseByPath(args[1]) # NoCodebase
                                   THEN findCodebaseByPath(args[1]) ELSE @]
                         /\ execs' = [execs EXCEPT ![e].pc = "cmdGetSession"]
                 /\ UNCHANGED codebases
            [] command = "clone" ->
                 IF Len(args) = 0
                 THEN /\ ok
                      /\ execs' = [execs EXCEPT ![e] =
                            ReplyWith(@, "Usage: /clone <repo-url> or /clone <owner/repo>")]
                      /\ UNCHANGED <<conversations, codebases>>
                 ELSE IF ok /\ findCodebaseByPath(TargetPath(args[1])) = NoCodebase
                            /\ Len(codebases) < MaxCodebases
                 THEN /\ codebases' = Append(codebases,
                            [default_cwd |-> TargetPath(args[1]), commands |-> {}])
                      /\ conversations' = [conversations EXCEPT
                            ![c].codebase_id = Len(codebases) + 1,
                            ![c].cwd = TargetPath(args[1])]
                      /\ execs' = [execs EXCEPT ![e].pc = "cmdGetSession"]
                 ELSE /\ execs' = [execs EXCEPT ![e] =
                            ReplyWith(@, "Failed to clone repository")]
                      /\ UNCHANGED <<conversations, codebases>>
            [] OTHER ->
                 /\ ok
                 /\ execs' = [execs EXCEPT ![e] = ReplyWith(@, command)]
                 /\ UNCHANGED <<conversations, codebases>>
    /\ UNCHANGED <<streamingMode, sessions, sent>>

\* handleCommand (reset, setcwd, clone): getActiveSession.
CmdGetSession(e, f) ==
    /\ UNCHANGED lockVars
    /\ e \in ExecIds
    /\ execs[e].pc = "cmdGetSession"
    /\ f \in getActiveSession(execs[e].conv)
    /\ execs' = [execs EXCEPT ![e] =
          IF f # NoSession
          THEN [@ EXCEPT !.found = f, !.pc = "cmdDeactivate"]
          ELSE ReplyWith(@, IF parseCommand(@.message).command = "reset"
                            THEN "No active session to reset."
                            ELSE "Session reset - starting fresh on next message.")]
    /\ UNCHANGED <<streamingMode, conversations, codebases, sessions, sent>>

\* handleCommand (reset, setcwd, clone): deactivateSession(session.id).
CmdDeactivate(e) ==
    /\ UNCHANGED lockVars
    /\ e \in ExecIds
    /\ execs[e].pc = "cmdDeactivate"
    /\ sessions' = deactivateSession(sessions, execs[e].found)
    /\ execs' = [execs EXCEPT ![e] =
          ReplyWith(@, IF parseCommand(@.message).command = "reset"
                       THEN "Session cleared. Starting fresh on next message."
                       ELSE "Session reset - starting fresh on next message.")]
    /\ UNCHANGED <<streamingMode, conversations, codebases, sent>>

\* Variant: the path returns without sending its text.
ReplyDropped(e, ok) ==
    /\ UNCHANGED lockVars
    /\ e \in ExecIds
    /\ execs[e].pc = "reply"
    /\ ok
    /\ execs' = [execs EXCEPT ![e] = Finished(@, "returned")]
    /\ UNCHANGED <<streamingMode, conversations, codebases, sessions, sent>>

\* A path's single platform.sendMessage followed by return; a failing send is
\* caught by the top-level handler.
Reply(e, ok) ==
    /\ UNCHANGED lockVars
    /\ e \in ExecIds
    /\ execs[e].pc = "reply"
    /\ IF ok
       THEN /\ sent' = Send(execs[e].conv, e, execs[e].reply)
            /\ execs' = [execs EXCEPT ![e] = Finished(@, "returned")]
       ELSE /\ execs' = [execs EXCEPT ![e].pc = "catch"]
            /\ UNCHANGED sent
    /\ UNCHANGED <<streamingMode, conversations, codebases, sessions>>

\* getCodebase(conversation.codebase_id) returns null: the linked codebase row
\* is no longer in storage.
LookupGone(e) ==
    /\ UNCHANGED lockVars
    /\ e \in ExecIds
    /\ execs[e].pc = "lookup"
    /\ execs' = [execs EXCEPT ![e] = ReplyWith(@, "Codebase not found.")]
    /\ UNCHANGED <<streamingMode, conversations, codebases, sessions, sent>>

\* Variant: a failure to read the command file is left to the top-level
\* handler.
LookupBubbles(e, readable) ==
    /\ UNCHANGED lockVars
    /\ e \in ExecIds
    /\ execs[e].pc = "lookup"
    /\ execs' = [execs EXCEPT ![e] =
          IF @.commandName \notin codebases[@.codebase_id].commands
          THEN ReplyWith(@, "Command not found. Use /commands to see available.")
          ELSE IF readable
          THEN [@ EXCEPT !.pc = "getSession"]
          ELSE [@ EXCEPT !.pc = "catch"]]
    /\ UNCHANGED <<streamingMode, conversations, codebases, sessions, sent>>

\* /command-invoke: look up the command definition and read its file.
Lookup(e, readable) ==
    /\ UNCHANGED lockVars
    /\ e \in ExecIds
    /\ execs[e].pc = "lookup"
    /\ execs' = [execs EXCEPT ![e] =
          IF @.commandName \notin codebases[@.codebase_id].commands
          THEN ReplyWith(@, "Command not found. Use /commands to see available.")
          ELSE IF readable
          THEN [@ EXCEPT !.pc = "getSession"]
          ELSE ReplyWith(@, "Failed to read command file")]
    /\ UNCHANGED <<streamingMode, conversations, codebases, sessions, sent>>

\* needsNewSession: the plan -> execute transition.
needsNewSession(commandName, f) ==
    /\ commandName = "execute"
    /\ f # NoSession
    /\ sessions[f].lastCommand = "plan-feature"

\* GetSession that resumes whatever it found, creating nothing when it found
\* no session.
GetSessionNoCreate(e, f) ==
    /\ UNCHANGED lockVars
    /\ e \in ExecIds
    /\ execs[e].pc = "getSession"
    /\ f \in getActiveSession(execs[e].conv)
    /\ execs' = [execs EXCEPT ![e] =
          [@ EXCEPT !.found = f,
                    !.lastCommand = IF f = NoSession THEN ""
                                    ELSE sessions[f].lastCommand,
                    !.session = f,
                    !.assistant_session_id =
                        IF f = NoSession THEN NoToken
                        ELSE sessions[f].assistant_session_id,
                    !.pc = IF needsNewSession(execs[e].commandName, f) THEN "deactivate"
                           ELSE "query"]]
    /\ UNCHANGED <<streamingMode, conversations, codebases, sessions, sent>>

\* Lines 151-158: getActiveSession and the transition check.
GetSession(e, f) ==
    /\ UNCHANGED lockVars
    /\ e \in ExecIds
    /\ execs[e].pc = "getSession"
    /\ f \in getActiveSession(execs[e].conv)
    /\ execs' = [execs EXCEPT ![e] =
          [@ EXCEPT !.found = f,
                    !.lastCommand = IF f = NoSession THEN ""
                                    ELSE sessions[f].lastCommand,
                    !.session = f,
                    !.assistant_session_id =
                        IF f = NoSession THEN NoToken
                        ELSE sessions[f].assistant_session_id,
                    !.pc = IF needsNewSession(execs[e].commandName, f) THEN "deactivate"
                           ELSE IF f = NoSession THEN "create"
                           ELSE "query"]]
    /\ UNCHANGED <<streamingMode, conversations, codebases, sessions, sent>>

\* Lines 163-165: deactivate the planning session.
Deactivate(e) ==
    /\ UNCHANGED lockVars
    /\ e \in ExecIds
    /\ execs[e].pc = "deactivate"
    /\ sessions' = deactivateSession(sessions, execs[e].session)
    /\ execs' = [execs EXCEPT ![e].pc = "create"]
    /\ UNCHANGED <<streamingMode, conversations, codebases, sent>>

\* Create that keeps resuming with the token of the session it replaces.
CreateCarryingToken(e) ==
    /\ UNCHANGED lockVars
    /\ e \in ExecIds
    /\ execs[e].pc = "create"
    /\ sessions' = createSession(sessions, execs[e].conv, execs[e].codebase_id)
    /\ execs' = [execs EXCEPT ![e].session = Len(sessions) + 1,
                              ![e].created = @ + 1,
                              ![e].pc = "query"]
    /\ UNCHANGED <<streamingMode, conversations, codebases, sent>>

\* Lines 167-171 and 174-178: createSession.
Create(e) ==
    /\ UNCHANGED lockVars
    /\ e \in ExecIds
    /\ execs[e].pc = "create"
    /\ sessions' = createSession(sessions, execs[e].conv, execs[e].codebase_id)
    /\ execs' = [execs EXCEPT ![e].session = Len(sessions) + 1,
                              ![e].assistant_session_id = NoToken,
                              ![e].created = @ + 1,
                              ![e].pc = "query"]
    /\ UNCHANGED <<streamingMode, conversations, codebases, sent>>

\* Where handleMessage continues once the stream is exhausted.
AfterStream(c) == IF streamingMode[c] = "stream" THEN "meta" ELSE "final"

\* A query that never forwards a resume token.
QueryWithoutToken(e, st) ==
    /\ UNCHANGED lockVars
    /\ e \in ExecIds
    /\ execs[e].pc = "query"
    /\ execs' = [execs EXCEPT ![e].queried = TRUE,
                              ![e].queryToken = NoToken,
                              ![e].resumedInvoked = sessions[execs[e].session].invoked,
                              ![e].stream = st,
                              ![e].rest = st,
                              ![e].pc = IF st = <<>> THEN AfterStream(execs[e].conv)
                                        ELSE "stream"]
    /\ sessions' = IF execs[e].commandName # ""
                   THEN [sessions EXCEPT ![execs[e].session].invoked =
                                             execs[e].commandName]
                   ELSE sessions
    /\ UNCHANGED <<streamingMode, conversations, codebases, sent>>

\* Lines 189-193 and 210-214: aiClient.sendQuery(prompt, cwd, resume token);
\* st is the chunk sequence the backend will produce.
Query(e, st) ==
    /\ UNCHANGED lockVars
    /\ e \in ExecIds
    /\ execs[e].pc = "query"
    /\ execs' = [execs EXCEPT ![e].queried = TRUE,
                              ![e].queryToken = execs[e].assistant_session_id,
                              ![e].resumedInvoked = sessions[execs[e].session].invoked,
                              ![e].stream = st,
                              ![e].rest = st,
                              ![e].pc = IF st = <<>> THEN AfterStream(execs[e].conv)
                                        ELSE "stream"]
    /\ sessions' = IF execs[e].commandName # ""
                   THEN [sessions EXCEPT ![execs[e].session].invoked =
                                             execs[e].commandName]
                   ELSE sessions
    /\ UNCHANGED <<streamingMode, conversations, codebases, sent>>

\* tool-formatter: formatToolCall(toolName, toolInput)
formatToolCall(toolName) == <<"tool", toolName>>

\* A loop that drops the backend's session tokens.
PersistsNothing(msg) == FALSE

\* Lines 200-203 and 223-225: a result chunk that carries a session token.
Persists(msg) == msg.type = "result" /\ msg.sessionId # NoToken

\* Forwarding that ignores the delivery mode.
ForwardsInBatchToo(c, msg) ==
    \/ msg.type = "assistant" /\ msg.content # <<>>
    \/ msg.type = "tool" /\ msg.toolName # ""

\* Forwarding in which tool calls are never announced.
ForwardsTextOnly(c, msg) ==
    /\ streamingMode[c] = "stream"
    /\ msg.type = "assistant" /\ msg.content # <<>>

\* Lines 194-199: the chunks stream mode sends on as they arrive; batch mode
\* (215-222) sends none of them.
Forwards(c, msg) ==
    /\ streamingMode[c] = "stream"
    /\ \/ msg.type = "assistant" /\ msg.content # <<>>
       \/ msg.type = "tool" /\ msg.toolName # ""

\* Lines 194-203 and 215-225: one chunk of the stream.
Stream(e, ok) ==
    /\ UNCHANGED lockVars
    /\ e \in ExecIds
    /\ execs[e].pc = "stream"
    /\ LET c == execs[e].conv
           msg == Head(execs[e].rest)
           more == [execs[e] EXCEPT
                       !.rest = Tail(@),
                       !.pc = IF Tail(execs[e].rest) = <<>> THEN AfterStream(c)
                              ELSE "stream"]
           sends == Forwards(c, msg)
       IN IF msg.type = "throw"
          THEN /\ ok
               /\ execs' = [execs EXCEPT ![e].pc = "catch"]
               /\ UNCHANGED <<sessions, sent>>
          ELSE IF sends
          THEN IF ok
               THEN /\ sent' = Send(c, e, IF msg.type = "assistant" THEN msg.content
                                          ELSE formatToolCall(msg.toolName))
                    /\ execs' = [execs EXCEPT ![e] = more]
                    /\ UNCHANGED sessions
               ELSE /\ execs' = [execs EXCEPT ![e].pc = "catch"]
                    /\ UNCHANGED <<sessions, sent>>
          ELSE /\ ok
               /\ execs' = [execs EXCEPT ![e] =
                     IF msg.type = "assistant" /\ msg.content # <<>>
                     THEN [more EXCEPT !.lastAssistant = msg.content]
                     ELSE more]
               /\ sessions' =
                     IF Persists(msg)
                     THEN updateSession(sessions, execs[e].session, msg.sessionId)
                     ELSE sessions
               /\ UNCHANGED sent
    /\ UNCHANGED <<streamingMode, conversations, codebases>>

\* Lines 228-263: batch mode sends the clean summary of the last assistant
\* message, if there was one.
Final(e, ok) ==
    /\ UNCHANGED lockVars
    /\ e \in ExecIds
    /\ execs[e].pc = "final"
    /\ IF execs[e].lastAssistant = <<>>
       THEN /\ ok
            /\ execs' = [execs EXCEPT ![e].pc = "meta"]
            /\ UNCHANGED sent
       ELSE IF ok
       THEN /\ sent' = Send(execs[e].conv, e, CleanSummary(execs[e].lastAssistant))
            /\ execs' = [execs EXCEPT ![e].pc = "meta"]
       ELSE /\ execs' = [execs EXCEPT ![e].pc = "catch"]
            /\ UNCHANGED sent
    /\ UNCHANGED <<streamingMode, conversations, codebases, sessions>>

\* Variant: the metadata write is not guarded by 'if (commandName)'.
MetaUnconditional(e) ==
    /\ UNCHANGED lockVars
    /\ e \in ExecIds
    /\ execs[e].pc = "meta"
    /\ sessions' = updateSessionMetadata(sessions, execs[e].session,
                                         execs[e].commandName)
    /\ execs' = [execs EXCEPT ![e] = Finished(@, "returned")]
    /\ UNCHANGED <<streamingMode, conversations, codebases, sent>>

\* Lines 266-271: record the invoked command's name on the session.
Meta(e) ==
    /\ UNCHANGED lockVars
    /\ e \in ExecIds
    /\ execs[e].pc = "meta"
    /\ sessions' = IF execs[e].commandName # ""
                   THEN updateSessionMetadata(sessions, execs[e].session,
                                              execs[e].commandName)
                   ELSE sessions
    /\ execs' = [execs EXCEPT ![e] = Finished(@, "returned")]
    /\ UNCHANGED <<streamingMode, conversations, codebases, sent>>

\* Variant: the top-level handler discards the session the run was using.
CatchRollsBack(e, ok) ==
    /\ UNCHANGED lockVars
    /\ e \in ExecIds
    /\ execs[e].pc = "catch"
    /\ sessions' = IF execs[e].session # NoSession
                   THEN deactivateSession(sessions, execs[e].session)
                   ELSE sessions
    /\ IF ok
       THEN /\ sent' = Send(execs[e].conv, e, "An error occurred. Try /reset to start a fresh session.")
            /\ execs' = [execs EXCEPT ![e] = Finished(@, "returned")]
       ELSE /\ execs' = [execs EXCEPT ![e] = Finished(@, "rejected")]
            /\ UNCHANGED sent
    /\ UNCHANGED <<streamingMode, conversations, codebases>>

\* Variant: the top-level handler only logs.
CatchSilent(e, ok) ==
    /\ UNCHANGED lockVars
    /\ e \in ExecIds
    /\ execs[e].pc = "catch"
    /\ execs' = [execs EXCEPT ![e] = Finished(@, "returned")]
    /\ UNCHANGED <<streamingMode, conversations, codebases, sessions, sent>>

\* Lines 272-278: the top-level handler answers with the generic notice; when
\* that send fails too, handleMessage rejects.
Catch(e, ok) ==
    /\ UNCHANGED lockVars
    /\ e \in ExecIds
    /\ execs[e].pc = "catch"
    /\ IF ok
       THEN /\ sent' = Send(execs[e].conv, e, "An error occurred. Try /reset to start a fresh session.")
            /\ execs' = [execs EXCEPT ![e] = Finished(@, "returned")]
       ELSE /\ execs' = [execs EXCEPT ![e] = Finished(@, "rejected")]
            /\ UNCHANGED sent
    /\ UNCHANGED <<streamingMode, conversations, codebases, sessions>>

NextOrch ==
    \/ \E c \in Convs, m \in InboundMessages : testMessage(c, m)
    \/ \E c \in Convs, m \in InboundMessages : handleWebhook(c, m)
    \/ \E e \in 1..MaxMsgs : Classify(e)
    \/ \E e \in 1..MaxMsgs, ok \in BOOLEAN : Command(e, ok)
    \/ \E e \in 1..MaxMsgs, f \in 0..MaxMsgs : CmdGetSession(e, f)
    \/ \E e \in 1..MaxMsgs : CmdDeactivate(e)
    \/ \E e \in 1..MaxMsgs, ok \in BOOLEAN : Reply(e, ok)
    \/ \E e \in 1..MaxMsgs, readable \in BOOLEAN : Lookup(e, readable)
    \/ \E e \in 1..MaxMsgs, f \in 0..MaxMsgs : GetSession(e, f)
    \/ \E e \in 1..MaxMsgs : Deactivate(e)
    \/ \E e \in 1..MaxMsgs : Create(e)
    \/ \E e \in 1..MaxMsgs : \E st \in Streams(e) : Query(e, st)
    \/ \E e \in 1..MaxMsgs, ok \in BOOLEAN : Stream(e, ok)
    \/ \E e \in 1..MaxMsgs, ok \in BOOLEAN : Final(e, ok)
    \/ \E e \in 1..MaxMsgs : Meta(e)
    \/ \E e \in 1..MaxMsgs, ok \in BOOLEAN : Catch(e, ok)

InitOrch == OrchInit /\ LockIdle

SpecOrch == InitOrch /\ [][NextOrch]_vars

\* Every message is admitted through the lock manager (Slack, Telegram, test
\* endpoint): all inbound messages, commands included, one at a time per
\* conversation.
NextAdmitted ==
    \/ \E c \in Convs, m \in InboundMessages : testMessage(c, m)
    \/ \E e \in 1..MaxMsgs : Classify(e)
    \/ \E e \in 1..MaxMsgs, ok \in BOOLEAN : Command(e, ok)
    \/ \E e \in 1..MaxMsgs, f \in 0..MaxMsgs : CmdGetSession(e, f)
    \/ \E e \in 1..MaxMsgs : CmdDeactivate(e)
    \/ \E e \in 1..MaxMsgs, ok \in BOOLEAN : Reply(e, ok)
    \/ \E e \in 1..MaxMsgs, readable \in BOOLEAN : Lookup(e, readable)
    \/ \E e \in 1..MaxMsgs, f \in 0..MaxMsgs : GetSession(e, f)
    \/ \E e \in 1..MaxMsgs : Deactivate(e)
    \/ \E e \in 1..MaxMsgs : Create(e)
    \/ \E e \in 1..MaxMsgs : \E st \in Streams(e) : Query(e, st)
    \/ \E e \in 1..MaxMsgs, ok \in BOOLEAN : Stream(e, ok)
    \/ \E e \in 1..MaxMsgs, ok \in BOOLEAN : Final(e, ok)
    \/ \E e \in 1..MaxMsgs : Meta(e)
    \/ \E e \in 1..MaxMsgs, ok \in BOOLEAN : Catch(e, ok)

\* The GitHub conversation receives nothing here: its settings are fixed.
InitAdmitted ==
    /\ InitOrch
    /\ streamingMode["gh1"] = "stream"
    /\ conversations["gh1"].codebase_id = NoCodebase

SpecAdmitted == InitAdmitted /\ [][NextAdmitted]_vars

\* An awaited collaborator call other than a send throws inside the try block
\* of handleMessage (storage, command handler, backend client): control goes
\* to the top-level handler at line 272.
ThrowPoints ==
    {"start", "command", "cmdGetSession", "cmdDeactivate", "lookup",
     "getSession", "deactivate", "create", "query", "meta"}

Throw(e) ==
    /\ UNCHANGED lockVars
    /\ e \in ExecIds
    /\ execs[e].pc \in ThrowPoints
    /\ execs' = [execs EXCEPT ![e].pc = "catch"]
    /\ UNCHANGED <<streamingMode, conversations, codebases, sessions, sent>>

\* The lock-admitted entry points with failing collaborators.
NextFaulty ==
    \/ NextAdmitted
    \/ \E e \in 1..MaxMsgs : Throw(e)

SpecFaulty == InitAdmitted /\ [][NextFaulty]_vars

\* Classification of one message: every known command word, a capitalised
\* one, an ordinary word and a word with the invoke form as a prefix, typed
\* with or without the marker, with or without leading whitespace.
ClassifyWords == KNOWN_COMMANDS \cup {"hello", "command-invokes", "Reset"}

ClassifyArgs == {<<>>, <<"plan-feature">>, <<"acme/widget">>, <<"/workspace/r1">>}

ClassifyMessages ==
    {[lead |-> l, slash |-> sl, word |-> w, args |-> a] :
        l \in BOOLEAN, sl \in BOOLEAN, w \in ClassifyWords, a \in ClassifyArgs}

\* The first message of a lock-admitted conversation.
firstMessage(c, m) ==
    /\ execs = <<>>
    /\ testMessage(c, m)

NextClassify ==
    \/ \E m \in ClassifyMessages : firstMessage("c1", m)
    \/ \E e \in 1..MaxMsgs : Classify(e)
    \/ \E e \in 1..MaxMsgs, ok \in BOOLEAN : Command(e, ok)
    \/ \E e \in 1..MaxMsgs, f \in 0..MaxMsgs : CmdGetSession(e, f)
    \/ \E e \in 1..MaxMsgs, ok \in BOOLEAN : Reply(e, ok)
    \/ \E e \in 1..MaxMsgs, readable \in BOOLEAN : Lookup(e, readable)
    \/ \E e \in 1..MaxMsgs, f \in 0..MaxMsgs : GetSession(e, f)
    \/ \E e \in 1..MaxMsgs : Create(e)
    \/ \E e \in 1..MaxMsgs : \E st \in Streams(e) : Query(e, st)
    \/ \E e \in 1..MaxMsgs, ok \in BOOLEAN : Stream(e, ok)
    \/ \E e \in 1..MaxMsgs, ok \in BOOLEAN : Final(e, ok)
    \/ \E e \in 1..MaxMsgs : Meta(e)
    \/ \E e \in 1..MaxMsgs, ok \in BOOLEAN : Catch(e, ok)

SpecClassify == InitAdmitted /\ [][NextClassify]_vars

\* One conversation whose messages pass the lock manager, with the delivery
\* streams: prompts and invokes only.
LockedMessages ==
    {Msg(FALSE, "hello", <<>>),
     Msg(TRUE, "command-invoke", <<"plan-feature">>),
     Msg(TRUE, "command-invoke", <<"execute">>)}

InitLocked ==
    /\ LockIdle
    /\ streamingMode \in {[c \in Convs |-> "stream"], [c \in Convs |-> "batch"]}
    /\ conversations = [c \in Convs |->
          [exists |-> TRUE, codebase_id |-> 1, cwd |-> "/workspace/r1"]]
    /\ codebases = <<[default_cwd |-> "/workspace/r1",
                      commands |-> {"plan-feature", "execute"}]>>
    /\ sessions = <<>>
    /\ execs = <<>>
    /\ sent = [c \in Convs |-> <<>>]

NextLocked ==
    \/ \E m \in LockedMessages : testMessage("c1", m)
    \/ \E e \in 1..MaxMsgs : Classify(e)
    \/ \E e \in 1..MaxMsgs, ok \in BOOLEAN : Reply(e, ok)
    \/ \E e \in 1..MaxMsgs, readable \in BOOLEAN : Lookup(e, readable)
    \/ \E e \in 1..MaxMsgs, f \in 0..MaxMsgs : GetSession(e, f)
    \/ \E e \in 1..MaxMsgs : Deactivate(e)
    \/ \E e \in 1..MaxMsgs : Create(e)
    \/ \E e \in 1..MaxMsgs : \E st \in DeliveryStreams(e) : Query(e, st)
    \/ \E e \in 1..MaxMsgs, ok \in BOOLEAN : Stream(e, ok)
    \/ \E e \in 1..MaxMsgs, ok \in BOOLEAN : Final(e, ok)
    \/ \E e \in 1..MaxMsgs : Meta(e)
    \/ \E e \in 1..MaxMsgs, ok \in BOOLEAN : Catch(e, ok)

SpecLocked == InitLocked /\ [][NextLocked]_vars

(***************************************************************************)
(* Session lifecycle properties                                            *)
(***************************************************************************)
\* The invocation has chosen its session and is at or past the backend query.
SessionChosen(e) == execs[e].pc = "query" \/ execs[e].queried

Locked(c) == PlatformOf(c) # "github"

\* C8: at most one session is active per conversation in every reachable
\* state, whatever sequence of prompts, invokes, /reset, /setcwd, /clone and
\* rotations was handled for the conversation.
AtMostOneActiveSession ==
    \A c \in Convs : Cardinality(ActiveSessions(c)) <= 1

\* The same bound for the conversations whose messages pass the lock manager.
AtMostOneActiveSessionLocked ==
    \A c \in Convs : Locked(c) => Cardinality(ActiveSessions(c)) <= 1

\* C9: a prompt-producing message handled while the conversation has no
\* active session makes handleMessage create exactly one session for the
\* conversation before the first backend query, and the query carries no
\* resume token.
CreatesOneSessionWhenNoneActive ==
    \A e \in ExecIds :
        /\ execs[e].created <= 1
        /\ execs[e].queried => SessionChosen(e) /\ execs[e].session # NoSession
        /\ (SessionChosen(e) /\ execs[e].found = NoSession) =>
              /\ execs[e].created = 1
              /\ execs[e].session \in SessionIds
              /\ sessions[execs[e].session].conversation_id = execs[e].conv
              /\ execs[e].assistant_session_id = NoToken
              /\ execs[e].queried => execs[e].queryToken = NoToken
        /\ (SessionChosen(e) /\ Locked(execs[e].conv) /\ execs[e].startActive = {}) =>
              execs[e].found = NoSession

CreatesOneSessionWitness ==
    \E e \in ExecIds :
        /\ execs[e].queried
        /\ execs[e].startActive = {}
        /\ execs[e].found = NoSession
        /\ execs[e].created = 1
        /\ execs[e].queryToken = NoToken
        /\ execs[e].pc = "stream"

\* The forced-rotation trigger as handleMessage saw it.
RotationTrigger(e) ==
    /\ execs[e].commandName = "execute"
    /\ execs[e].found # NoSession
    /\ execs[e].lastCommand = "plan-feature"

\* C10: forced rotation. When the active session's lastCommand is
\* 'plan-feature' and the message is an invoke of 'execute', handleMessage
\* deactivates the old session, then creates a new one, and issues the backend
\* query with no resume token.
ForcedRotation ==
    \A e \in ExecIds :
        RotationTrigger(e) =>
            /\ execs[e].pc \in {"deactivate", "create", "query", "stream",
                                "final", "meta", "catch"}
            /\ execs[e].pc = "deactivate" => execs[e].created = 0
            /\ execs[e].pc = "create" =>
                  /\ ~sessions[execs[e].found].active
                  /\ execs[e].created = 0
            /\ execs[e].pc \notin {"deactivate", "create"} =>
                  /\ SessionChosen(e)
                  /\ ~sessions[execs[e].found].active
                  /\ execs[e].created = 1
                  /\ execs[e].session \in SessionIds \ {execs[e].found}
                  /\ sessions[execs[e].session].conversation_id = execs[e].conv
                  /\ execs[e].assistant_session_id = NoToken
                  /\ execs[e].queried => execs[e].queryToken = NoToken
            /\ Locked(execs[e].conv) => execs[e].startActive = {execs[e].found}

ForcedRotationWitness ==
    \E e \in ExecIds :
        /\ RotationTrigger(e)
        /\ execs[e].queried
        /\ execs[e].pc = "stream"
        /\ sessions[execs[e].found].assistant_session_id # NoToken
        /\ ~sessions[execs[e].found].active
        /\ sessions[execs[e].session].active
        /\ execs[e].queryToken = NoToken

\* C11: resume. When the forced-rotation trigger does not hold and the
\* conversation has an active session, handleMessage creates no session and
\* issues the backend query with that session's stored backend token (none if
\* the backend has not reported one yet).
ResumesStoredToken ==
    \A e \in ExecIds :
        (SessionChosen(e) /\ execs[e].found # NoSession /\ ~RotationTrigger(e)) =>
            /\ execs[e].created = 0
            /\ execs[e].session = execs[e].found
            /\ execs[e].queried => execs[e].queryToken = execs[e].assistant_session_id
            /\ Locked(execs[e].conv) =>
                  /\ execs[e].startActive = {execs[e].found}
                  /\ sessions[execs[e].found].active
                  /\ execs[e].pc = "query" =>
                        sessions[execs[e].found].assistant_session_id =
                            execs[e].assistant_session_id
                  /\ (execs[e].queried /\ execs[e].rest = execs[e].stream) =>
                        sessions[execs[e].found].assistant_session_id =
                            execs[e].queryToken

ResumesStoredTokenWitness ==
    \E e \in ExecIds :
        /\ execs[e].queried
        /\ execs[e].pc = "stream"
        /\ execs[e].found # NoSession
        /\ ~RotationTrigger(e)
        /\ execs[e].created = 0
        /\ execs[e].queryToken # NoToken
        /\ execs[e].queryToken = sessions[execs[e].found].assistant_session_id

\* C12: over any sequence of messages on one conversation, failed streams and
\* sends included, the backend query of an invoke of 'execute' never carries
\* the resume token of a session whose most recently invoked command was
\* 'plan-feature'.
ExecuteNeverResumesPlan ==
    \A e \in ExecIds :
        (execs[e].queried /\ execs[e].commandName = "execute"
                          /\ execs[e].resumedInvoked = "plan-feature") =>
            execs[e].queryToken = NoToken

(***************************************************************************)
(* Delivery properties                                                     *)
(***************************************************************************)
\* The texts invocation e has sent so far, in order.
SendsBy(e) ==
    LET own == SelectSeq(sent[execs[e].conv], LAMBDA m : m.e = e)
    IN [i \in 1..Len(own) |-> own[i].text]

\* The chunks of e's stream that have arrived.
Arrived(e) ==
    SubSeq(execs[e].stream, 1, Len(execs[e].stream) - Len(execs[e].rest))

IsText(ch) == ch.type = "assistant" /\ ch.content # <<>>

IsToolCall(ch) == ch.type = "tool" /\ ch.toolName # ""

\* One text per assistant-text chunk and per tool chunk, in stream order.
OnePerChunk(chunks) ==
    LET shown == SelectSeq(chunks, LAMBDA ch : IsText(ch) \/ IsToolCall(ch))
    IN [i \in 1..Len(shown) |->
           IF shown[i].type = "assistant" THEN shown[i].content
           ELSE <<"tool", shown[i].toolName>>]

\* C13: stream mode. The recipient receives exactly one send per
\* assistant-text chunk and one per tool chunk, none for any other chunk, in
\* the order the backend produced the chunks.
StreamModeOnePerChunk ==
    \A e \in ExecIds :
        (execs[e].queried /\ streamingMode[execs[e].conv] = "stream"
                          /\ execs[e].pc \in {"stream", "meta"}) =>
            /\ SendsBy(e) = OnePerChunk(Arrived(e))
            /\ execs[e].pc = "meta" => SendsBy(e) = OnePerChunk(execs[e].stream)

StreamModeWitness ==
    \E e \in ExecIds :
        /\ streamingMode[execs[e].conv] = "stream"
        /\ execs[e].pc = "meta"
        /\ Len(SelectSeq(execs[e].stream, IsText)) = 3
        /\ Len(SelectSeq(execs[e].stream, IsToolCall)) = 1
        /\ Len(SendsBy(e)) = 4
        /\ SendsBy(e)[2] = <<"tool", "Read">>

\* The assistant-text chunks of a chunk sequence.
Texts(chunks) == SelectSeq(chunks, IsText)

\* A text without its sections that start with a tool indicator, or the text
\* itself when every section starts with one.
WithoutToolSections(content) ==
    IF \A i \in 1..Len(content) : content[i] = "glyph"
    THEN content
    ELSE SelectSeq(content, LAMBDA sec : sec # "glyph")

BatchModeFallbackWitness ==
    \E e \in ExecIds :
        /\ streamingMode[execs[e].conv] = "batch"
        /\ execs[e].pc = "meta"
        /\ SendsBy(e) = << <<"glyph", "glyph">> >>

\* C15: a stream of zero chunks produces no outbound message in either mode,
\* and a stream of only non-text chunks (tool, result, system, thinking)
\* produces no outbound message in batch mode.
NothingToSend ==
    \A e \in ExecIds :
        (execs[e].queried /\ execs[e].pc \in {"stream", "final", "meta"}) =>
            /\ execs[e].stream = <<>> => SendsBy(e) = <<>>
            /\ (streamingMode[execs[e].conv] = "batch"
                    /\ \A i \in 1..Len(execs[e].stream) :
                          execs[e].stream[i].type \in
                              {"tool", "result", "system", "thinking"}) =>
                  SendsBy(e) = <<>>

NothingToSendWitness ==
    \E e \in ExecIds :
        /\ execs[e].queried /\ execs[e].pc = "meta"
        /\ streamingMode[execs[e].conv] = "batch"
        /\ {execs[e].stream[i].type : i \in 1..Len(execs[e].stream)} =
              {"tool", "result", "system", "thinking"}
        /\ SendsBy(e) = <<>>

\* The stream without chunks, in stream mode.
NoChunkWitness ==
    \E e \in ExecIds :
        /\ execs[e].queried /\ execs[e].pc = "meta"
        /\ streamingMode[execs[e].conv] = "stream"
        /\ execs[e].stream = <<>>
        /\ SendsBy(e) = <<>>

\* The token of the last result chunk that carries one, if any.
LastToken(chunks) ==
    LET carrying == SelectSeq(chunks,
                       LAMBDA ch : ch.type = "result" /\ ch.sessionId # NoToken)
    IN IF carrying = <<>> THEN NoToken ELSE carrying[Len(carrying)].sessionId

\* C16: in both modes every result chunk that carries a backend session token
\* is persisted onto the current session when it arrives, so after the stream
\* the stored token is that of the last such chunk; result chunks are never
\* forwarded, and in batch mode tool chunks are not forwarded either.
ResultTokensPersisted ==
    \A e \in ExecIds :
        (execs[e].queried /\ execs[e].pc \in {"stream", "final", "meta"}) =>
            /\ Locked(execs[e].conv) =>
                  sessions[execs[e].session].assistant_session_id =
                      IF LastToken(Arrived(e)) # NoToken
                      THEN LastToken(Arrived(e))
                      ELSE execs[e].queryToken
            /\ streamingMode[execs[e].conv] = "stream" =>
                  Len(SendsBy(e)) =
                      Len(SelectSeq(Arrived(e),
                                    LAMBDA ch : IsText(ch) \/ IsToolCall(ch)))
            /\ streamingMode[execs[e].conv] = "batch" =>
                  /\ Len(SendsBy(e)) <= 1
                  /\ SendsBy(e) # <<>> =>
                        /\ execs[e].pc = "meta"
                        /\ \E i \in 1..Len(execs[e].stream) :
                              /\ IsText(execs[e].stream[i])
                              /\ SendsBy(e)[1] =
                                    WithoutToolSections(execs[e].stream[i].content)

ResultTokensWitness ==
    \E e \in ExecIds :
        /\ execs[e].pc \in {"final", "meta"}
        /\ Len(SelectSeq(execs[e].stream,
                         LAMBDA ch : ch.type = "result" /\ ch.sessionId # NoToken)) = 2
        /\ execs[e].stream[1].sessionId # LastToken(execs[e].stream)
        /\ sessions[execs[e].session].assistant_session_id = LastToken(execs[e].stream)

\* C17: after the backend stream is exhausted, in either mode, an invoke of
\* command N leaves the session used for the message with lastCommand = N; a
\* freeform prompt writes no lastCommand.
LastCommandAfterStream ==
    [][\A e \in ExecIds :
          (/\ execs[e].queried
           /\ execs[e].rest = <<>>
           /\ execs[e].pc \in {"final", "meta", "catch"}
           /\ execs'[e].pc = "done") =>
              sessions'[execs[e].session].lastCommand =
                  IF execs[e].commandName # "" THEN execs[e].commandName
                  ELSE sessions[execs[e].session].lastCommand]_vars

\* The part of C17 that the code keeps: a run that reaches the end of
\* handleMessage's try block records the invoked command, and only then.
LastCommandOnCompletion ==
    [][\A e \in ExecIds :
          (execs[e].pc = "meta" /\ execs'[e].pc = "done") =>
              sessions'[execs[e].session].lastCommand =
                  IF execs[e].commandName # "" THEN execs[e].commandName
                  ELSE sessions[execs[e].session].lastCommand]_vars

(***************************************************************************)
(* Classification properties                                               *)
(***************************************************************************)
GenericNotice == "An error occurred. Try /reset to start a fresh session."

NoCodebaseNotice == "No codebase configured. Use /clone first."

\* The message, once normalized, carries the marker and does not begin with
\* the invoke form.
PureCommand(m) ==
    LET n == normalizeCommand(m)
    IN ~n.lead /\ n.slash /\ n.word \notin InvokePrefixed

CommandPath == {"command", "cmdGetSession", "cmdDeactivate", "reply", "catch"}

\* The step ends invocation e with exactly one send, of text.
EndsWithOneSend(e, text) ==
    /\ execs'[e].result = "returned"
    /\ sent' = [sent EXCEPT ![execs[e].conv] = Append(@, [e |-> e, text |-> text])]

\* The step ends invocation e from its reply with the reply text sent once,
\* or from the top-level handler (the reply's send threw) with the generic
\* notice sent once, or with no send at all when the handler's send threw too.
EndsWithReply(e) ==
    \/ execs[e].pc = "reply" /\ EndsWithOneSend(e, execs[e].reply)
    \/ execs[e].pc = "catch" /\ EndsWithOneSend(e, GenericNotice)
    \/ execs[e].pc = "catch" /\ execs'[e].result = "rejected" /\ sent' = sent

PromptWithoutCodebase(e) ==
    /\ execs[e].pc \notin {"start", "done"}
    /\ execs[e].codebase_id = NoCodebase
    /\ ~PureCommand(execs[e].message)
    /\ StartsWithInvoke(execs[e].message) => Len(execs[e].message.args) >= 1

\* C19: a freeform prompt or a named invoke on a conversation with no linked
\* codebase is answered with the one 'No codebase configured' error; no
\* session is created, no backend query is issued, and handleMessage returns
\* normally.
NoCodebaseIsTerminal ==
    /\ [](\A e \in ExecIds :
            PromptWithoutCodebase(e) =>
                /\ execs[e].pc \in {"reply", "catch"}
                /\ execs[e].reply = NoCodebaseNotice
                /\ execs[e].created = 0
                /\ execs[e].session = NoSession
                /\ ~execs[e].queried
                /\ SendsBy(e) = <<>>)
    /\ [][\A e \in ExecIds :
            (PromptWithoutCodebase(e) /\ execs'[e].pc = "done") =>
                /\ EndsWithReply(e)
                /\ sessions' = sessions]_vars

NoCodebaseWitness ==
    \E e \in ExecIds :
        /\ execs[e].message = Msg(TRUE, "command-invoke", <<"plan-feature">>)
        /\ conversations[execs[e].conv].codebase_id = NoCodebase
        /\ execs[e].pc = "done"
        /\ execs[e].result = "returned"
        /\ SendsBy(e) = <<NoCodebaseNotice>>
        /\ sessions = <<>>

\* C20: handleMessage never rejects, whichever collaborator fails, the
\* message-sending collaborator included.
NeverRejects ==
    \A e \in ExecIds : execs[e].result # "rejected"

(***************************************************************************)
(* Failure properties                                                      *)
(***************************************************************************)
\* How many of e's sends so far are the generic notice.
NoticesBy(e) ==
    Len(SelectSeq(SendsBy(e), LAMBDA t : t = GenericNotice))

\* C21: a failure inside handleMessage's try block (classification, session
\* setup, streaming) is answered with the generic notice exactly once: no
\* notice is sent before the top-level handler runs, a run ends from the
\* handler by sending the notice once (or, when that send throws, by
\* rejecting without a send), and a run that ends elsewhere sends no notice.
OneGenericNotice ==
    /\ [](\A e \in ExecIds : execs[e].pc # "done" => NoticesBy(e) = 0)
    /\ [](\A e \in ExecIds : NoticesBy(e) <= 1)
    /\ [][\A e \in ExecIds :
            (execs[e].pc # "done" /\ execs'[e].pc = "done") =>
                IF execs[e].pc = "catch"
                THEN \/ EndsWithOneSend(e, GenericNotice)
                     \/ execs'[e].result = "rejected" /\ sent' = sent
                ELSE /\ execs'[e].result = "returned"
                     /\ NoticesBy(e)' = 0]_vars

\* A storage failure after the session was created, answered by the notice.
OneGenericNoticeWitness ==
    \E e \in ExecIds :
        /\ execs[e].pc = "done"
        /\ execs[e].result = "returned"
        /\ SendsBy(e) = <<GenericNotice>>
        /\ \E s \in SessionIds :
              /\ sessions[s].conversation_id = execs[e].conv
              /\ sessions[s].assistant_session_id = NoToken

\* The backend stream st ends without the generator throwing.
Completes(st) == \A i \in 1..Len(st) : st[i].type # "throw"

\* C22: a failing send is not fatal: a run whose backend stream does not fail
\* ends with every chunk consumed, the last result token stored on its session
\* and, for an invoke, the command's name recorded as lastCommand, whether or
\* not a send failed on the way.
SendFailureNotFatal ==
    [][\A e \in ExecIds :
          (/\ execs[e].queried
           /\ Completes(execs[e].stream)
           /\ execs[e].pc # "done"
           /\ execs'[e].pc = "done") =>
              /\ execs[e].rest = <<>>
              /\ LastToken(execs[e].stream) # NoToken =>
                    sessions'[execs[e].session].assistant_session_id =
                        LastToken(execs[e].stream)
              /\ execs[e].commandName # "" =>
                    sessions'[execs[e].session].lastCommand =
                        execs[e].commandName]_vars

(***************************************************************************)
(* Admission properties                                                    *)
(***************************************************************************)
\* C23: every entry path runs handleMessage inside acquireLock with the
\* conversation's key, so the runs of one conversation, which read and write
\* its Session and Conversation records, never overlap.
WritesUnderAdmissionSlot ==
    \A c \in Convs : Cardinality(InFlight(c)) <= 1

(***************************************************************************)
(* Normalization properties                                                *)
(***************************************************************************)
\* The message is a recognized command word typed without the marker.
BareKnownWord(m) == ~m.lead /\ ~m.slash /\ m.word \in KNOWN_COMMANDS

\* C24: a message 'w a' with a recognized bare command word w is handled as
\* '/w a': classification leaves the run with the record that classification
\* of '/w a' yields (same text, same path, same reply), so every later
\* collaborator call and send is the same.
BareWordAsMarked ==
    [][\A e \in ExecIds :
          (/\ execs[e].pc = "start"
           /\ execs'[e].pc # "start"
           /\ BareKnownWord(execs[e].message)) =>
              /\ execs'[e].message = [execs[e].message EXCEPT !.slash = TRUE]
              /\ execs'[e] =
                    Classified([execs[e] EXCEPT !.message.slash = TRUE],
                               conversations[execs[e].conv].codebase_id)]_vars

\* 'clone acme/widget' typed without the marker has cloned and linked the
\* repository.
BareWordWitness ==
    \E e \in ExecIds :
        /\ execs[e].raw = Msg(FALSE, "clone", <<"acme/widget">>)
        /\ execs[e].message = Msg(TRUE, "clone", <<"acme/widget">>)
        /\ execs[e].pc \in {"cmdGetSession", "reply"}
        /\ conversations[execs[e].conv].cwd = "/workspace/widget"

(***************************************************************************)
(* Text utilities: parseCommand (command-handler)                          *)
(***************************************************************************)
\* A text is a sequence of characters. Space stands for any whitespace
\* character, DQ and SQ are the two quote characters, "/" is the marker and
\* every other string stands for a run of ordinary characters.
Space == " "
DQ == "\""
SQ == "'"

MaxArgs == 2
MaxRun == 2

RECURSIVE IndexFrom(_, _, _)
\* text.indexOf(ch, i), 0 when there is none.
IndexFrom(text, ch, i) ==
    IF i > Len(text) THEN 0
    ELSE IF text[i] = ch THEN i
    ELSE IndexFrom(text, ch, i + 1)

\* /"[^"]+"/ tried at position i with quote q: the position of the closing
\* quote, 0 when the alternative does not match there.
QuotedEnd(text, i, q) ==
    LET j == IndexFrom(text, q, i + 1)
    IN IF text[i] = q /\ j > i + 1 THEN j ELSE 0

RECURSIVE RunEnd(_, _)
\* /\S+/ tried at a non-whitespace position i: the last position of the run.
RunEnd(text, i) ==
    IF i < Len(text) /\ text[i + 1] # Space THEN RunEnd(text, i + 1) ELSE i

RECURSIVE matchFrom(_, _)
\* text.match(/"[^"]+"|'[^']+'|\S+/g) from position i: at each position the
\* alternatives in order, then on from the end of the match.
matchFrom(text, i) ==
    IF i > Len(text) THEN <<>>
    ELSE IF text[i] = Space THEN matchFrom(text, i + 1)
    ELSE LET end == IF QuotedEnd(text, i, DQ) # 0 THEN QuotedEnd(text, i, DQ)
                    ELSE IF QuotedEnd(text, i, SQ) # 0 THEN QuotedEnd(text, i, SQ)
                    ELSE RunEnd(text, i)
         IN <<SubSeq(text, i, end)>> \o matchFrom(text, end + 1)

\* Variant: the quotes stay on the argument.
stripQuotesKept(arg) == arg

\* arg.slice(1, -1) when arg starts and ends with the same quote character.
stripQuotes(arg) ==
    IF /\ Len(arg) >= 1
       /\ \/ arg[1] = DQ /\ arg[Len(arg)] = DQ
          \/ arg[1] = SQ /\ arg[Len(arg)] = SQ
    THEN SubSeq(arg, 2, Len(arg) - 1)
    ELSE arg

\* parseCommand(text) on the characters of the text.
parseCommandText(text) ==
    LET matches == matchFrom(text, 1)
    IN IF matches = <<>>
       THEN [command |-> <<>>, args |-> <<>>]
       ELSE [command |-> Tail(matches[1]),
             args |-> [i \in 1..(Len(matches) - 1) |-> stripQuotes(matches[i + 1])]]

\* The arguments a user types: a word of ordinary characters, or a run of
\* ordinary characters, whitespace and the other quote character between two
\* quote characters.
SeqsUpTo(S, n) == UNION {[1..k -> S] : k \in 1..n}

TypedArgs ==
    {[quote |-> "", body |-> b] : b \in SeqsUpTo({"w"}, MaxRun)}
    \cup {[quote |-> q, body |-> b] : q \in {DQ, SQ}, b \in SeqsUpTo({"w", Space}, MaxRun)}
    \cup {[quote |-> DQ, body |-> <<SQ>>], [quote |-> SQ, body |-> <<DQ>>],
          [quote |-> DQ, body |-> <<"w", SQ, "w">>],
          [quote |-> SQ, body |-> <<DQ, Space, DQ>>]}

\* '/command-invoke plan "multi word arg"'
ExampleArgs ==
    <<[quote |-> "", body |-> <<"plan">>],
      [quote |-> DQ, body |-> <<"multi", Space, "word", Space, "arg">>]>>

Typed(arg) ==
    IF arg.quote = "" THEN arg.body ELSE <<arg.quote>> \o arg.body \o <<arg.quote>>

RECURSIVE TypedLine(_, _, _)
\* The command line: marker, command word, and each argument after gap
\* whitespace characters.
TypedLine(word, items, gap) ==
    IF items = <<>> THEN <<"/", word>>
    ELSE TypedLine(word, SubSeq(items, 1, Len(items) - 1), gap)
           \o [i \in 1..gap |-> Space] \o Typed(items[Len(items)])

\* commandHandler.parseCommand(message) on a typed command line.
parseCommandCall(items, gap) ==
    /\ input' = [call |-> "parseCommand", items |-> items,
                 text |-> TypedLine("command-invoke", items, gap)]
    /\ output' = parseCommandText(TypedLine("command-invoke", items, gap))
    /\ UNCHANGED <<lockState, orchState>>

InitText == LockIdle /\ OrchIdle

\* The first call parses a line without arguments or the example; each later
\* call parses the previous line with one more argument.
NextParse ==
    \/ /\ input.call = "none"
       /\ \E items \in {<<>>, ExampleArgs}, gap \in 1..2 : parseCommandCall(items, gap)
    \/ /\ input.call = "parseCommand"
       /\ Len(input.items) < MaxArgs
       /\ \E arg \in TypedArgs, gap \in 1..2 :
             parseCommandCall(Append(input.items, arg), gap)

SpecParse == InitText /\ [][NextParse]_vars

\* C25: parseCommand yields the command name without the marker and one
\* argument per typed argument: a word as typed, a quoted run without its
\* quotes and with its inner whitespace kept.
ParsesWordsAndQuotedRuns ==
    input.call = "parseCommand" =>
        /\ output.command = <<"command-invoke">>
        /\ Len(output.args) = Len(input.items)
        /\ \A i \in 1..Len(input.items) : output.args[i] = input.items[i].body

ParsesExampleWitness ==
    /\ input.call = "parseCommand"
    /\ input.text = <<"/", "command-invoke", Space, "plan", Space,
                      DQ, "multi", Space, "word", Space, "arg", DQ>>
    /\ output.args = <<<<"plan">>, <<"multi", Space, "word", Space, "arg">>>>

(***************************************************************************)
(* User-input errors                                                       *)
(***************************************************************************)
\* The replies to an invoke without a command name, to a command without its
\* argument and to a prompt on a conversation without a codebase.
UserInputErrors ==
    {"Usage: /command-invoke <name> [args...]",
     "Usage: /setcwd <path>",
     "Usage: /clone <repo-url> or /clone <owner/repo>",
     NoCodebaseNotice}

\* The step is taken by run e, which is answering a user-input error.
UserErrorStep(e) ==
    /\ execs'[e] # execs[e]
    /\ \/ execs[e].pc \in {"reply", "catch"} /\ execs[e].reply \in UserInputErrors
       \/ execs'[e].pc = "reply" /\ execs'[e].reply \in UserInputErrors

\* The error is reported: the run's last step sends the error text once (the
\* generic notice when that send throws).
UserErrorReported(e) ==
    (execs[e].pc # "done" /\ execs'[e].pc = "done") => EndsWithReply(e)

\* C26 as stated: handling a user-input error reports it and leaves every
\* Conversation, Session and codebase record as it was.
UserErrorMutatesNothing ==
    [][\A e \in ExecIds :
          UserErrorStep(e) =>
              /\ UserErrorReported(e)
              /\ conversations' = conversations
              /\ sessions' = sessions
              /\ codebases' = codebases]_vars

\* C26, amended: handling a user-input error reports it and changes no
\* record, except that the Conversation record is created when the message
\* is the conversation's first; its codebase link and working directory, the
\* sessions and the codebases stay as they were.
UserErrorOnlyCreatesConversation ==
    [][\A e \in ExecIds :
          UserErrorStep(e) =>
              /\ UserErrorReported(e)
              /\ conversations' =
                    IF execs[e].pc = "start"
                    THEN [conversations EXCEPT ![execs[e].conv].exists = TRUE]
                    ELSE conversations
              /\ sessions' = sessions
              /\ codebases' = codebases]_vars

\* '/setcwd' without a path as the first message of a conversation.
UserErrorWitness ==
    \E e \in ExecIds :
        /\ execs[e].message = Msg(TRUE, "setcwd", <<>>)
        /\ execs[e].pc = "done"
        /\ execs[e].result = "returned"
        /\ SendsBy(e) = <<"Usage: /setcwd <path>">>
        /\ conversations[execs[e].conv] =
              [exists |-> TRUE, codebase_id |-> NoCodebase, cwd |-> ""]
        /\ sessions = <<>>

(***************************************************************************)
(* Session reset                                                           *)
(***************************************************************************)
\* Both conversations have been used before: each is linked to the codebase
\* and has an active session whose backend token was persisted by an earlier
\* message (an invoke of 'plan-feature' on c1, a prompt on gh1).
InitReset ==
    /\ LockIdle
    /\ streamingMode = [c \in Convs |-> IF c = "c1" THEN "batch" ELSE "stream"]
    /\ conversations = [c \in Convs |->
          [exists |-> TRUE, codebase_id |-> 1, cwd |-> "/workspace/r1"]]
    /\ codebases = <<[default_cwd |-> "/workspace/r1",
                      commands |-> {"plan-feature", "execute"}]>>
    /\ sessions = <<[conversation_id |-> "c1", codebase_id |-> 1, active |-> TRUE,
                     assistant_session_id |-> 21, lastCommand |-> "plan-feature",
                     invoked |-> "plan-feature"],
                    [conversation_id |-> "gh1", codebase_id |-> 1, active |-> TRUE,
                     assistant_session_id |-> 22, lastCommand |-> "",
                     invoked |-> ""]>>
    /\ execs = <<>>
    /\ sent = [c \in Convs |-> <<>>]

ResetMessages ==
    {Msg(TRUE, "reset", <<>>),
     Msg(TRUE, "setcwd", <<"/workspace/r1">>),
     Msg(TRUE, "clone", <<"acme/widget">>),
     Msg(FALSE, "hello", <<>>),
     Msg(TRUE, "command-invoke", <<"execute">>)}

NextReset ==
    \/ \E c \in Convs, m \in ResetMessages : testMessage(c, m)
    \/ \E c \in Convs, m \in ResetMessages : handleWebhook(c, m)
    \/ \E e \in 1..MaxMsgs : Classify(e)
    \/ \E e \in 1..MaxMsgs, ok \in BOOLEAN : Command(e, ok)
    \/ \E e \in 1..MaxMsgs, f \in 0..(MaxMsgs + 2) : CmdGetSession(e, f)
    \/ \E e \in 1..MaxMsgs : CmdDeactivate(e)
    \/ \E e \in 1..MaxMsgs, ok \in BOOLEAN : Reply(e, ok)
    \/ \E e \in 1..MaxMsgs, readable \in BOOLEAN : Lookup(e, readable)
    \/ \E e \in 1..MaxMsgs, f \in 0..(MaxMsgs + 2) : GetSession(e, f)
    \/ \E e \in 1..MaxMsgs : Deactivate(e)
    \/ \E e \in 1..MaxMsgs : Create(e)
    \/ \E e \in 1..MaxMsgs : \E st \in Streams(e) : Query(e, st)
    \/ \E e \in 1..MaxMsgs, ok \in BOOLEAN : Stream(e, ok)
    \/ \E e \in 1..MaxMsgs, ok \in BOOLEAN : Final(e, ok)
    \/ \E e \in 1..MaxMsgs : Meta(e)
    \/ \E e \in 1..MaxMsgs, ok \in BOOLEAN : Catch(e, ok)

SpecReset == InitReset /\ [][NextReset]_vars

\* The lock-admitted conversation alone, after its invoke of 'plan-feature':
\* prompts, /reset and invokes of 'execute', one message at a time.
PlanMessages ==
    {Msg(TRUE, "reset", <<>>),
     Msg(FALSE, "hello", <<>>),
     Msg(TRUE, "command-invoke", <<"execute">>)}

NextPlan ==
    \/ \E m \in PlanMessages : testMessage("c1", m)
    \/ \E e \in 1..MaxMsgs : Classify(e)
    \/ \E e \in 1..MaxMsgs, ok \in BOOLEAN : Command(e, ok)
    \/ \E e \in 1..MaxMsgs, f \in 0..(MaxMsgs + 2) : CmdGetSession(e, f)
    \/ \E e \in 1..MaxMsgs : CmdDeactivate(e)
    \/ \E e \in 1..MaxMsgs, ok \in BOOLEAN : Reply(e, ok)
    \/ \E e \in 1..MaxMsgs, readable \in BOOLEAN : Lookup(e, readable)
    \/ \E e \in 1..MaxMsgs, f \in 0..(MaxMsgs + 2) : GetSession(e, f)
    \/ \E e \in 1..MaxMsgs : Deactivate(e)
    \/ \E e \in 1..MaxMsgs : Create(e)
    \/ \E e \in 1..MaxMsgs : \E st \in Streams(e) : Query(e, st)
    \/ \E e \in 1..MaxMsgs, ok \in BOOLEAN : Stream(e, ok)
    \/ \E e \in 1..MaxMsgs, ok \in BOOLEAN : Final(e, ok)
    \/ \E e \in 1..MaxMsgs : Meta(e)
    \/ \E e \in 1..MaxMsgs, ok \in BOOLEAN : Catch(e, ok)

SpecPlan == InitReset /\ [][NextPlan]_vars

\* The step in which handleCommand finishes the session reset of /reset, or
\* of a /setcwd or /clone that changed the working directory.
ResetCompletes(e) ==
    /\ execs[e].pc \in {"cmdGetSession", "cmdDeactivate"}
    /\ execs'[e].pc = "reply"

\* The step in which handleMessage issues its backend query.
Queries(e) == execs[e].pc = "query" /\ execs'[e].queried

\* C27: after an explicit /reset or a successful working-directory change
\* (/setcwd, /clone) the conversation has no active session, so the next
\* prompt-producing message finds none, creates a fresh session and queries
\* the backend with no resume token; a deactivated session is never queried
\* again.
ResetEndsTheSession ==
    [][\A e \in ExecIds :
          /\ ResetCompletes(e) => ActiveSessions(execs[e].conv)' = {}
          /\ Queries(e) =>
                /\ sessions[execs[e].session].active
                /\ execs[e].startActive = {} =>
                      /\ execs[e].created = 1
                      /\ execs'[e].queryToken = NoToken]_vars

\* The same statement for the conversations whose messages pass the lock
\* manager.
ResetEndsTheSessionLocked ==
    [][\A e \in ExecIds :
          Locked(execs[e].conv) =>
              /\ ResetCompletes(e) => ActiveSessions(execs[e].conv)' = {}
              /\ Queries(e) =>
                    /\ sessions[execs[e].session].active
                    /\ execs[e].startActive = {} =>
                          /\ execs[e].created = 1
                          /\ execs'[e].queryToken = NoToken]_vars

\* A prompt after a reset of the stored session: a fresh session, no token.
FreshAfterResetWitness ==
    \E e \in ExecIds :
        /\ Locked(execs[e].conv)
        /\ execs[e].pc = "stream"
        /\ execs[e].startActive = {}
        /\ execs[e].created = 1
        /\ execs[e].queryToken = NoToken
        /\ \E s \in SessionIds :
              /\ sessions[s].conversation_id = execs[e].conv
              /\ ~sessions[s].active
              /\ sessions[s].assistant_session_id # NoToken

(***************************************************************************)
(* Slack adapter: sendMessage                                              *)
(***************************************************************************)
MAX_LENGTH == 4000

\* 'Reserve 100 chars for safety margin'.
SafetyMargin == 100

MaxLines == 3

\* A line of the message is one character repeated len times; a text is the
\* sequence of its lines, joined by '\n'.
LineLengths == {0, 1, 100, 1950, 2000, 3899, 3900, 4000, 4001}

Lines == [ch : {"x", "y"}, len : LineLengths]

RECURSIVE SumLen(_)
SumLen(ls) == IF ls = <<>> THEN 0 ELSE Head(ls).len + SumLen(Tail(ls))

\* text.length
Length(ls) == IF ls = <<>> THEN 0 ELSE SumLen(ls) + Len(ls) - 1

\* The text of a single line; the empty string has no line to show.
Text(line) == IF line.len = 0 THEN <<>> ELSE <<line>>

\* chunk += (chunk ? '\n' : '') + line
Joined(chunk, line) == IF Length(chunk) = 0 THEN Text(line) ELSE Append(chunk, line)

\* The for loop of lines 57-71 on the remaining lines, with the posts made so
\* far and the chunk being built; then the remaining chunk, lines 73-80.
RECURSIVE splitLoop(_, _, _)
splitLoop(rest, chunk, posts) ==
    IF rest = <<>>
    THEN IF Length(chunk) # 0 THEN Append(posts, chunk) ELSE posts
    ELSE LET line == Head(rest)
         IN IF Length(chunk) + line.len + 1 > MAX_LENGTH - SafetyMargin
            THEN splitLoop(Tail(rest), Text(line),
                           IF Length(chunk) # 0 THEN Append(posts, chunk) ELSE posts)
            ELSE splitLoop(Tail(rest), Joined(chunk, line), posts)

\* The texts sendMessage hands to chat.postMessage, in order.
postMessages(message) ==
    IF Length(message) <= MAX_LENGTH
    THEN <<message>>
    ELSE splitLoop(message, <<>>, <<>>)

\* adapter.sendMessage(conversationId, message) with every post accepted.
sendMessageCall(message) ==
    /\ input' = [call |-> "sendMessage", message |-> message]
    /\ output' = postMessages(message)
    /\ UNCHANGED <<lockState, orchState>>

\* Messages of one line, then each with one more line.
NextSlack ==
    \/ \E line \in Lines :
          /\ input.call = "none"
          /\ sendMessageCall(<<line>>)
    \/ \E line \in Lines :
          /\ input.call = "sendMessage"
          /\ Len(input.message) < MaxLines
          /\ sendMessageCall(Append(input.message, line))

SpecSlack == InitText /\ [][NextSlack]_vars

RECURSIVE Flat(_)
Flat(posts) == IF posts = <<>> THEN <<>> ELSE Head(posts) \o Flat(Tail(posts))

Visible(ls) == SelectSeq(ls, LAMBDA line : line.len # 0)

\* C28: sendMessage posts a message of at most 4000 characters as exactly one
\* post with the text unchanged, and splits any longer message into more than
\* one post, in original order, with no post longer than 4000 characters.
SplitsAt4000 ==
    input.call = "sendMessage" =>
        /\ Length(input.message) <= 4000 => output = <<input.message>>
        /\ Length(input.message) > 4000 =>
              /\ Len(output) > 1
              /\ Visible(Flat(output)) = Visible(input.message)
              /\ \A i \in 1..Len(output) : Length(output[i]) <= 4000

(***************************************************************************)
(* Ordering of outbound sends                                              *)
(***************************************************************************)
\* Run e has issued a send or a backend query.
HasActed(e) == SendsBy(e) # <<>> \/ execs[e].queried

\* C29: outbound sends of two different inbound messages of the same
\* conversation are never interleaved: every send caused by the
\* earlier-submitted message is issued before any send and any backend query
\* caused by the later-submitted message.
SendsNeverInterleaved ==
    \A e1, e2 \in ExecIds :
        (e1 < e2 /\ execs[e1].conv = execs[e2].conv /\ HasActed(e2)) =>
            execs[e1].pc = "done"

\* The same statement for the conversations whose messages pass the lock
\* manager.
SendsNeverInterleavedLocked ==
    \A e1, e2 \in ExecIds :
        (e1 < e2 /\ execs[e1].conv = execs[e2].conv /\ HasActed(e2)
            /\ Locked(execs[e1].conv)) =>
            execs[e1].pc = "done"

\* Two messages of one lock-admitted conversation, both answered with
\* several sends.
SendsInOrderWitness ==
    \E e1, e2 \in ExecIds :
        /\ e1 < e2
        /\ execs[e1].conv = execs[e2].conv
        /\ Locked(execs[e1].conv)
        /\ Len(SendsBy(e1)) > 1
        /\ Len(SendsBy(e2)) > 1

(***************************************************************************)
(* Lock manager: the key map                                               *)
(***************************************************************************)
\* The units of key k that have not settled: running or queued work.
Unsettled(k) == {u \in UnitIds : units[u].key = k /\ units[u].st # "settled"}

\* The units submitted under key k.
UnitsOf(k) == {u \in UnitIds : units[u].key = k}

\* C30: the key map holds an entry for key K exactly while K has running or
\* queued work, and the entry is the latest unit submitted for K; when the
\* last unit of K settles, by success or failure, the entry is removed, so
\* once all work has settled getStats reports zero distinct keys; a unit
\* submitted for K before an earlier unit finished stays the key's entry when
\* that earlier unit is cleaned up.
KeyEntryWhileWork ==
    /\ \A k \in Keys :
          /\ tail[k] # NoUnit <=> Unsettled(k) # {}
          /\ tail[k] # NoUnit =>
                /\ tail[k] \in Unsettled(k)
                /\ \A u \in UnitsOf(k) : u <= tail[k]
    /\ getStats.keys = Cardinality({k \in Keys : Unsettled(k) # {}})
    /\ AllSettled => getStats.keys = 0

\* A unit was submitted for a key whose earlier unit was still at work; the
\* earlier unit has failed and been cleaned up, the later one is the key's
\* entry, and another key's entry is already gone.
KeyEntryWitness ==
    \E u1, u2, u3 \in UnitIds :
        /\ units[u2].pred = u1
        /\ units[u1].st = "settled"
        /\ units[u1].work = "rejected"
        /\ units[u2].st # "settled"
        /\ tail[units[u2].key] = u2
        /\ units[u3].key # units[u2].key
        /\ units[u3].st = "settled"
        /\ tail[units[u3].key] = NoUnit
        /\ getStats.keys = 1

(***************************************************************************)
(* handleMessage as the lock manager's unit of work                        *)
(***************************************************************************)
\* The lock key of the conversation whose work is handleMessage; the units of
\* the other keys stand for other conversations' work.
KeyOf(c) == IF c = "c1" THEN "k1" ELSE "k2"

\* The backend's generator has yielded a chunk and its next chunk has not
\* arrived: the for-await loop is suspended on it.
PendingChunk == Chunk("pending", <<>>, NoToken, "")

StuckStreams(e) ==
    {<<Chunk("assistant", <<"a1">>, NoToken, ""), Chunk("result", <<>>, e, "")>>,
     <<Chunk("assistant", <<"a1">>, NoToken, ""), PendingChunk>>,
     <<PendingChunk>>}

\* The loop of run e waits for a chunk that has not arrived.
Stalled(e) ==
    /\ execs[e].pc = "stream"
    /\ Head(execs[e].rest) = PendingChunk

\* Variant: a wait that is abandoned after a time limit, as if the stream had
\* ended.
NextChunkOrTimeout(e, ok) == Stream(e, ok)

\* for await (const msg of aiClient.sendQuery(...)): the loop body runs when
\* the generator yields; nothing else ends the wait.
NextChunk(e, ok) == e \in ExecIds /\ ~Stalled(e) /\ Stream(e, ok)

\* The runs of handleMessage made for conversation c so far.
RunsOf(c) == {e \in ExecIds : execs[e].conv = c}

\* lockManager.acquireLock(conversationId, async () => {...}) of a message
\* handler; the other keys are submitted by other conversations.
submitMessage(k) ==
    /\ k = KeyOf("c1") => Cardinality({u \in UnitIds : units[u].key = k}) < MaxMsgs
    /\ acquireLock(k)

\* The unit's callback runs: await handleMessage(adapter, conversationId,
\* message).
workBegins(c, m) ==
    /\ Cardinality(RunsOf(c)) < Len(started[KeyOf(c)])
    /\ testMessage(c, m)

\* The callback's promise settles when handleMessage has returned or
\* rejected; the work of the other keys settles at any time.
workSettles(u, o) ==
    /\ u \in UnitIds
    /\ units[u].st = "running"
    /\ units[u].key = KeyOf("c1") =>
          /\ Cardinality(RunsOf("c1")) = Len(started[KeyOf("c1")])
          /\ InFlight("c1") = {}
          /\ o = IF execs[Len(execs)].result = "returned" THEN "resolved"
                 ELSE "rejected"
    /\ Settle(u, o)

InitStuck ==
    /\ LockInit
    /\ input = [call |-> "none"]
    /\ output = <<>>
    /\ streamingMode \in {[c \in Convs |-> "stream"], [c \in Convs |-> "batch"]}
    /\ conversations = [c \in Convs |->
          [exists |-> TRUE, codebase_id |-> 1, cwd |-> "/workspace/r1"]]
    /\ codebases = <<[default_cwd |-> "/workspace/r1",
                      commands |-> {"plan-feature", "execute"}]>>
    /\ sessions = <<>>
    /\ execs = <<>>
    /\ sent = [c \in Convs |-> <<>>]

NextStuck ==
    \/ \E k \in Keys : submitMessage(k)
    \/ \E u \in 1..MaxUnits : Advance(u)
    \/ workBegins("c1", Msg(FALSE, "hello", <<>>))
    \/ \E u \in 1..MaxUnits, o \in WorkOutcomes : workSettles(u, o)
    \/ \E e \in 1..MaxMsgs : Classify(e)
    \/ \E e \in 1..MaxMsgs, f \in 0..MaxMsgs : GetSession(e, f)
    \/ \E e \in 1..MaxMsgs : Create(e)
    \/ \E e \in 1..MaxMsgs : \E st \in StuckStreams(e) : Query(e, st)
    \/ \E e \in 1..MaxMsgs, ok \in BOOLEAN : NextChunk(e, ok)
    \/ \E e \in 1..MaxMsgs, ok \in BOOLEAN : Final(e, ok)
    \/ \E e \in 1..MaxMsgs : Meta(e)
    \/ \E e \in 1..MaxMsgs, ok \in BOOLEAN : Catch(e, ok)

SpecStuck == InitStuck /\ [][NextStuck]_vars

\* The unit whose work is run e.
UnitOfRun(e) == started[KeyOf(execs[e].conv)][Cardinality({d \in RunsOf(execs[e].conv) : d <= e})]

\* While run e waits for its stream: its unit has not settled and holds a
\* permit, and every later unit of the key is queued behind it.
HoldsItsSlots(e) ==
    LET k == KeyOf(execs[e].conv)
        u == UnitOfRun(e)
    IN /\ units[u].key = k
       /\ units[u].st = "running"
       /\ units[u].future = "pending"
       /\ tail[k] # NoUnit
       /\ permits < maxConcurrent
       /\ activeCount >= 1
       /\ \A v \in UnitIds : (units[v].key = k /\ v > u) => units[v].st = "chained"
       /\ maxConcurrent = 1 => \A v \in UnitIds \ {u} : units[v].st # "running"

\* Nothing ends the wait of run e, and with every permit held by a stuck
\* stream no unit starts or settles.
StaysStuck(e) ==
    /\ Stalled(e)'
    /\ execs'[e] = execs[e]
    /\ sent' = sent
    /\ maxConcurrent = 1 => started' = started /\ settled' = settled

\* C31: there is no timeout or cancellation. If a backend stream never
\* yields its next chunk, the message's unit of work never settles, every
\* later message of the conversation stays queued, and one global admission
\* slot stays occupied; with the ceiling reached by stuck streams no
\* conversation makes progress.
StuckStreamHoldsForever ==
    /\ [](\A e \in ExecIds : Stalled(e) => HoldsItsSlots(e))
    /\ [][\A e \in ExecIds : Stalled(e) => StaysStuck(e)]_vars

\* A stuck stream under a ceiling of one: a later message of the conversation
\* is queued behind it and another conversation waits for a permit.
StuckStreamWitness ==
    \E e \in ExecIds, v, w \in UnitIds :
        /\ Stalled(e)
        /\ maxConcurrent = 1
        /\ units[v].key = KeyOf(execs[e].conv)
        /\ units[v].st = "chained"
        /\ units[w].key # KeyOf(execs[e].conv)
        /\ units[w].st = "waiting"
        /\ getStats.active = 1
        /\ getStats.queued = 2

(***************************************************************************)
(* Invokes that produce no prompt                                          *)
(***************************************************************************)
InvokeMessages ==
    {Msg(TRUE, "command-invoke", <<>>),
     Msg(TRUE, "command-invoke", <<"plan-feature">>),
     Msg(TRUE, "command-invoke", <<"deploy">>)}

NextInvoke ==
    \/ \E m \in InvokeMessages : testMessage("c1", m)
    \/ \E e \in 1..MaxMsgs : Classify(e)
    \/ \E e \in 1..MaxMsgs, ok \in BOOLEAN : Reply(e, ok)
    \/ \E e \in 1..MaxMsgs, readable \in BOOLEAN : Lookup(e, readable)
    \/ \E e \in 1..MaxMsgs : LookupGone(e)
    \/ \E e \in 1..MaxMsgs, f \in 0..MaxMsgs : GetSession(e, f)
    \/ \E e \in 1..MaxMsgs : Create(e)
    \/ \E e \in 1..MaxMsgs : \E st \in Streams(e) : Query(e, st)
    \/ \E e \in 1..MaxMsgs, ok \in BOOLEAN : Stream(e, ok)
    \/ \E e \in 1..MaxMsgs, ok \in BOOLEAN : Final(e, ok)
    \/ \E e \in 1..MaxMsgs : Meta(e)
    \/ \E e \in 1..MaxMsgs, ok \in BOOLEAN : Catch(e, ok)

SpecInvoke == InitAdmitted /\ [][NextInvoke]_vars

\* The answers to an invoke that cannot produce a prompt.
InvokeErrors ==
    {"Usage: /command-invoke <name> [args...]", NoCodebaseNotice,
     "Codebase not found.", "Command not found. Use /commands to see available.",
     "Failed to read command file"}

\* The step in which handleMessage finds that the invoke of run e produces no
\* prompt, and the answer that belongs to the cause.
InvokeFails(e) ==
    \/ /\ execs[e].pc = "start"
       /\ StartsWithInvoke(normalizeCommand(execs[e].message))
       /\ \/ execs[e].message.args = <<>>
          \/ conversations[execs[e].conv].codebase_id = NoCodebase
    \/ /\ execs[e].pc = "lookup"
       /\ execs'[e].pc \notin {"lookup", "getSession"}

AnswerFor(e) ==
    IF execs[e].pc = "start"
    THEN IF execs[e].message.args = <<>>
         THEN {"Usage: /command-invoke <name> [args...]"}
         ELSE {NoCodebaseNotice}
    ELSE IF execs[e].commandName \notin codebases[execs[e].codebase_id].commands
    THEN {"Codebase not found.", "Command not found. Use /commands to see available."}
    ELSE {"Codebase not found.", "Failed to read command file"}

\* Run e is on its way out with the answer to a failed invoke.
InvokeFailed(e) ==
    /\ execs[e].pc \in {"reply", "catch"}
    /\ execs[e].reply \in InvokeErrors

\* C32: an invoke that cannot produce a prompt (no command name, no codebase
\* linked or its record missing, command not registered, command file
\* unreadable) answers with the one message of its cause and nothing else:
\* no session is created, no backend query is issued, no lastCommand is
\* written, and the generic notice is not sent as well (it is sent only in
\* place of the answer, when that send fails).
FailedInvokeAnswersOnce ==
    [][\A e \in ExecIds :
          /\ (execs'[e] # execs[e] /\ InvokeFails(e)) =>
                /\ execs'[e].pc = "reply"
                /\ execs'[e].reply \in AnswerFor(e)
                /\ SendsBy(e) = <<>>
                /\ sent' = sent
                /\ sessions' = sessions
          /\ (execs'[e] # execs[e] /\ InvokeFailed(e)) =>
                /\ sessions' = sessions
                /\ execs[e].created = 0
                /\ ~execs[e].queried
                /\ execs'[e].pc = "done" => EndsWithReply(e)
                /\ execs'[e].pc # "done" => sent' = sent]_vars

\* After a completed invoke of 'plan-feature', an invoke whose command file
\* cannot be read: one answer, the session as it was.
FailedInvokeWitness ==
    \E e \in ExecIds :
        /\ e > 1
        /\ execs[e].pc = "done"
        /\ execs[e].result = "returned"
        /\ SendsBy(e) = <<"Failed to read command file">>
        /\ Len(sessions) = 1
        /\ sessions[1].active
        /\ sessions[1].lastCommand = "plan-feature"

(***************************************************************************)
(* lastCommand across messages                                             *)
(***************************************************************************)
\* The step is the metadata write of an invoke on session s.
InvokeRecords(s) ==
    \E e \in ExecIds :
        /\ execs[e].pc = "meta"
        /\ execs'[e].pc = "done"
        /\ execs[e].commandName # ""
        /\ execs[e].session = s
        /\ sessions'[s].lastCommand = execs[e].commandName

\* Run e has rotated: the session it found is inactive and the query goes to
\* a session created by e, without resume token.
Rotated(e) ==
    /\ execs[e].created = 1
    /\ execs[e].session # execs[e].found
    /\ ~sessions[execs[e].found].active
    /\ execs[e].assistant_session_id = NoToken
    /\ execs[e].queried => execs[e].queryToken = NoToken

\* C33: lastCommand is changed only by invokes (freeform prompts and commands
\* leave it as it is on every session), so an invoke of 'execute' that
\* follows a 'plan-feature' session and any freeform prompts on it still
\* finds lastCommand = 'plan-feature' and rotates.
LastCommandOnlyByInvokes ==
    /\ [][\A s \in SessionIds :
             sessions'[s].lastCommand # sessions[s].lastCommand => InvokeRecords(s)]_vars
    /\ [](\A e \in ExecIds :
             (SessionChosen(e) /\ execs[e].commandName = "execute"
                 /\ execs[e].found # NoSession
                 /\ sessions[execs[e].found].lastCommand = "plan-feature") =>
                 Rotated(e))

\* A freeform prompt resumed the planning session and stored a new token on
\* it; the invoke of 'execute' after it has rotated.
PromptsKeepLastCommandWitness ==
    \E e \in ExecIds :
        /\ e > 1
        /\ execs[1].conv = execs[e].conv
        /\ execs[1].message = Msg(FALSE, "hello", <<>>)
        /\ execs[1].pc = "done"
        /\ SendsBy(1) # <<>>
        /\ execs[e].commandName = "execute"
        /\ execs[e].pc = "stream"
        /\ execs[e].found = 1
        /\ sessions[1].assistant_session_id = 1
        /\ sessions[1].lastCommand = "plan-feature"
        /\ Rotated(e)

\* Run e is an invoke of 'execute' that rotated and whose stream is exhausted.
RotatedAndExhausted(e) ==
    /\ execs[e].commandName = "execute"
    /\ execs[e].found # NoSession
    /\ execs[e].created = 1
    /\ execs[e].queried
    /\ execs[e].rest = <<>>

\* Run e is an invoke of 'execute' that fetched a session last used by
\* 'execute'.
FollowsExecute(e) ==
    /\ execs[e].commandName = "execute"
    /\ SessionChosen(e)
    /\ execs[e].found # NoSession
    /\ execs[e].lastCommand = "execute"

\* C34: forced rotation happens once per plan-to-execute transition. After
\* an invoke of 'execute' that rotated and whose stream completed, the new
\* session's lastCommand is 'execute'; an invoke of 'execute' that follows
\* resumes that session with its stored token and creates no session.
RotatesOncePerTransition ==
    /\ [][\A e \in ExecIds :
             (RotatedAndExhausted(e) /\ execs'[e].pc = "done") =>
                 sessions'[execs[e].session].lastCommand = "execute"]_vars
    /\ [](\A e \in ExecIds :
             FollowsExecute(e) =>
                 /\ execs[e].created = 0
                 /\ execs[e].session = execs[e].found
                 /\ execs[e].queried =>
                       execs[e].queryToken = execs[e].assistant_session_id)

\* What holds of every run: the rotated 'execute' that ran to its end has
\* recorded its name, and a following 'execute' resumes.
RotatesOnceWhenRecorded ==
    /\ [][\A e \in ExecIds :
             (RotatedAndExhausted(e) /\ execs[e].pc = "meta" /\ execs'[e].pc = "done") =>
                 sessions'[execs[e].session].lastCommand = "execute"]_vars
    /\ [](\A e \in ExecIds :
             (execs[e].commandName = "execute" /\ SessionChosen(e)
                 /\ execs[e].found # NoSession
                 /\ execs[e].lastCommand # "plan-feature") =>
                 /\ execs[e].created = 0
                 /\ execs[e].session = execs[e].found
                 /\ execs[e].queried =>
                       execs[e].queryToken = execs[e].assistant_session_id)

\* Two invokes of 'execute' after a planning session: the first rotated, the
\* second resumes the session the first created, with the token stored on it.
ResumesAfterRotationWitness ==
    \E e \in ExecIds :
        /\ e > 1
        /\ FollowsExecute(e)
        /\ execs[e].pc = "stream"
        /\ execs[e].found = Len(sessions)
        /\ Len(sessions) = 3
        /\ ~sessions[1].active
        /\ sessions[1].lastCommand = "plan-feature"
        /\ execs[e].queryToken # NoToken
        /\ execs[e].queryToken = sessions[execs[e].found].assistant_session_id

(***************************************************************************)
(* A stream that fails part-way                                            *)
(***************************************************************************)
\* The invoke of run e is in the top-level handler because its stream, or a
\* send during it, failed before the stream was exhausted.
StreamFailed(e) ==
    /\ execs[e].pc = "catch"
    /\ execs[e].commandName # ""
    /\ execs[e].queried
    /\ execs[e].rest # <<>>

\* The lastCommand the run's session had before the run.
PreviousLastCommand(e) ==
    IF execs[e].created = 1 THEN "" ELSE execs[e].lastCommand

\* C35: when the backend stream, or a send during it, fails part-way through
\* an invoke, nothing is rolled back and lastCommand is not written: the
\* session stays active, keeps the token persisted from the result chunks
\* that arrived before the failure, and keeps its previous lastCommand.
FailedStreamKeepsPartialEffects ==
    /\ [](\A e \in ExecIds :
             (StreamFailed(e) /\ Locked(execs[e].conv)) =>
                 /\ sessions[execs[e].session].active
                 /\ sessions[execs[e].session].assistant_session_id =
                       IF LastToken(Arrived(e)) # NoToken
                       THEN LastToken(Arrived(e))
                       ELSE execs[e].queryToken
                 /\ sessions[execs[e].session].lastCommand = PreviousLastCommand(e))
    /\ [][\A e \in ExecIds :
             /\ (execs[e].pc = "stream" /\ execs'[e].pc = "catch") => sessions' = sessions
             /\ (StreamFailed(e) /\ execs'[e] # execs[e]) =>
                   /\ execs'[e].pc = "done"
                   /\ sessions' = sessions]_vars

\* A second invoke of 'plan-feature' whose stream fails after its result
\* chunk: the resumed session is active, holds the new token and still reads
\* 'plan-feature' from the first invoke.
FailedStreamWitness ==
    \E e \in ExecIds :
        /\ e > 1
        /\ StreamFailed(e)
        /\ execs[e].created = 0
        /\ execs[e].queryToken # NoToken
        /\ LastToken(Arrived(e)) = e
        /\ sessions[execs[e].session].active
        /\ sessions[execs[e].session].assistant_session_id = e
        /\ sessions[execs[e].session].lastCommand = "plan-feature"

(***************************************************************************)
(* Command registration on a shared codebase                               *)
(***************************************************************************)
RegisterMessages ==
    {Msg(TRUE, "command-set", <<"review", "review.md">>),
     Msg(TRUE, "command-set", <<"deploy", "deploy.md">>),
     Msg(TRUE, "command-set", <<"review">>),
     Msg(TRUE, "load-commands", <<"tools">>)}

\* findMarkdownFilesRecursive(fullPath): the command names of the .md files
\* of the folder.
findMarkdownFilesRecursive(folder) == IF folder = "tools" THEN {"lint", "fmt"} ELSE {}

\* The command names the message asks to register.
NamesToRegister(m) ==
    IF m.word = "command-set" THEN {m.args[1]}
    ELSE findMarkdownFilesRecursive(m.args[1])

Registered(m) ==
    IF m.word = "command-set" THEN "Command registered!" ELSE "Loaded commands"

\* handleCommand, 'command-set' and 'load-commands', up to the first storage
\* call: argument and codebase checks, then the file or folder is read.
registerChecks(e, readable) ==
    /\ UNCHANGED lockVars
    /\ e \in ExecIds
    /\ execs[e].pc = "command"
    /\ LET m == execs[e].message
       IN /\ m.word \in {"command-set", "load-commands"}
          /\ execs' = [execs EXCEPT ![e] =
                IF Len(m.args) < (IF m.word = "command-set" THEN 2 ELSE 1)
                THEN ReplyWith(@, "Usage")
                ELSE IF execs[e].codebase_id = NoCodebase
                THEN ReplyWith(@, NoCodebaseNotice)
                ELSE IF ~readable \/ NamesToRegister(m) = {}
                THEN ReplyWith(@, "Failed")
                ELSE [@ EXCEPT !.pc = "getCommands"]]
    /\ UNCHANGED <<streamingMode, conversations, codebases, sessions, sent>>

\* getCodebaseCommands(id): SELECT commands; the handler adds its names to
\* the copy it got.
getCodebaseCommands(e) ==
    /\ UNCHANGED lockVars
    /\ e \in ExecIds
    /\ execs[e].pc = "getCommands"
    /\ execs' = [execs EXCEPT
          ![e].commands = codebases[execs[e].codebase_id].commands
                             \cup NamesToRegister(execs[e].message),
          ![e].pc = "updateCommands"]
    /\ UNCHANGED <<streamingMode, conversations, codebases, sessions, sent>>

\* updateCodebaseCommands(id, commands): UPDATE ... SET commands = $1 with the
\* handler's copy.
updateCodebaseCommands(e) ==
    /\ UNCHANGED lockVars
    /\ e \in ExecIds
    /\ execs[e].pc = "updateCommands"
    /\ codebases' = [codebases EXCEPT
          ![execs[e].codebase_id].commands = execs[e].commands]
    /\ execs' = [execs EXCEPT ![e] = ReplyWith(@, Registered(@.message))]
    /\ UNCHANGED <<streamingMode, conversations, sessions, sent>>

\* One message per conversation: a conversation's own messages never overlap,
\* whatever its platform.
onlyMessage(c, m) ==
    /\ \A e \in ExecIds : execs[e].conv # c
    /\ \/ testMessage(c, m)
       \/ handleWebhook(c, m)

NextRegister ==
    \/ \E c \in Convs, m \in RegisterMessages : onlyMessage(c, m)
    \/ \E e \in 1..MaxMsgs : Classify(e)
    \/ \E e \in 1..MaxMsgs, readable \in BOOLEAN : registerChecks(e, readable)
    \/ \E e \in 1..MaxMsgs : getCodebaseCommands(e)
    \/ \E e \in 1..MaxMsgs : updateCodebaseCommands(e)
    \/ \E e \in 1..MaxMsgs, ok \in BOOLEAN : Reply(e, ok)
    \/ \E e \in 1..MaxMsgs, ok \in BOOLEAN : Catch(e, ok)

\* Both conversations are linked to the same codebase.
SpecRegister == InitLocked /\ [][NextRegister]_vars

\* Run e has completed a registration.
HasRegistered(e) ==
    /\ execs[e].pc = "done"
    /\ SendsBy(e) = <<Registered(execs[e].message)>>

\* C36: command registrations on a codebase shared by several conversations
\* are not lost: once the /command-set or /load-commands operations of two
\* conversations have completed, under any interleaving the per-conversation
\* locks allow, every command they registered is on the codebase.
RegistrationsNotLost ==
    (\A e \in ExecIds : execs[e].pc = "done") =>
        \A e \in ExecIds :
            HasRegistered(e) =>
                NamesToRegister(execs[e].message)
                    \subseteq codebases[conversations[execs[e].conv].codebase_id].commands

\* The same statement for registrations that did not overlap: the earlier
\* one had written before the later one read.
RegistrationsKeptInTurn ==
    [][\A e \in ExecIds :
          (execs[e].pc = "updateCommands" /\ execs'[e].pc = "reply"
              /\ codebases[execs[e].codebase_id].commands \subseteq execs[e].commands) =>
              \A d \in ExecIds :
                  HasRegistered(d) =>
                      NamesToRegister(execs[d].message)
                          \subseteq codebases'[execs[e].codebase_id].commands]_vars

\* Two registrations of different names, one after the other: both kept.
RegistrationsWitness ==
    /\ Len(execs) = 2
    /\ \A e \in ExecIds : HasRegistered(e)
    /\ execs[1].conv # execs[2].conv
    /\ {"review", "deploy"} \subseteq codebases[1].commands

(***************************************************************************)
(* Leading whitespace                                                      *)
(***************************************************************************)
\* The path classification put the run on: pure command, invoke or freeform
\* prompt, read from the record classification leaves.
PathTaken(x) ==
    IF StartsWithSlash(x.message) /\ ~StartsWithInvoke(x.message) THEN "command"
    ELSE IF StartsWithInvoke(x.message) THEN "invoke"
    ELSE "prompt"

\* message.trim(), applied to the text of the run's message.
Trimmed(x) == [x EXCEPT !.message.lead = FALSE]

\* Classify takes run e from its start to the first step of its path.
Classifies(e) ==
    /\ e \in ExecIds
    /\ execs[e].pc = "start"
    /\ execs'[e].pc # "start"

\* C37: classification ignores leading whitespace: a message made of
\* whitespace followed by text t is put on the same path (pure command,
\* invoke, freeform prompt) as t itself, whether t starts with the marker or
\* with a bare known command word.
LeadingWhitespaceIgnored ==
    [][\A e \in ExecIds :
          Classifies(e) =>
              PathTaken(execs'[e]) =
                  PathTaken(Classified(Trimmed(execs[e]),
                                       conversations[execs[e].conv].codebase_id))]_vars

\* The half of the statement about bare known command words: whitespace
\* before a bare known word is dropped together with the added marker, and
\* the record left by classification is the one of the trimmed text.
BareWordWhitespaceIgnored ==
    [][\A e \in ExecIds :
          (Classifies(e) /\ execs[e].message.lead /\ ~execs[e].message.slash
              /\ toLowerCase(execs[e].message.word) \in KNOWN_COMMANDS) =>
              execs'[e] = Classified(Trimmed(execs[e]),
                                     conversations[execs[e].conv].codebase_id)]_vars

====
